---- MODULE Spec2Model ----
(***************************************************************************)
(* Model of the NDP EndPoint admin console (ep-frontend): the session gate *)
(* (AuthGuard), the axios API client with its interceptors, and the        *)
(* version comparison used by the API compatibility check.                 *)
(*                                                                         *)
(* Strings that the code inspects character by character (version         *)
(* strings, request URLs) are tuples of one-character strings.             *)
(***************************************************************************)
EXTENDS Integers, Sequences, FiniteSets, TLC

(* ----------------------------------------------------------------------- *)
(* Bounds                                                                  *)
(* ----------------------------------------------------------------------- *)
MaxVersionLen == 3
MaxInFlight == 1
MaxPageRequests == 1
MaxStorageEvents == 3
MaxRuns == 3
MaxListRequests == 3

(* ----------------------------------------------------------------------- *)
(* String helpers                                                          *)
(* ----------------------------------------------------------------------- *)
Digits == {"0", "1", "2", "3", "4", "5", "6", "7", "8", "9"}

DigitVal(c) ==
  CASE c = "0" -> 0 [] c = "1" -> 1 [] c = "2" -> 2 [] c = "3" -> 3
    [] c = "4" -> 4 [] c = "5" -> 5 [] c = "6" -> 6 [] c = "7" -> 7
    [] c = "8" -> 8 [] c = "9" -> 9

\* String.prototype.startsWith
StartsWith(s, p) == Len(p) <= Len(s) /\ SubSeq(s, 1, Len(p)) = p

\* String.prototype.split(sep) for a one-character separator: ''.split('.')
\* is [''], and every separator starts a new (possibly empty) component.
RECURSIVE SplitFrom(_, _, _, _)
SplitFrom(s, sep, i, cur) ==
  IF i > Len(s) THEN <<cur>>
  ELSE IF s[i] = sep THEN <<cur>> \o SplitFrom(s, sep, i + 1, <<>>)
  ELSE SplitFrom(s, sep, i + 1, Append(cur, s[i]))

Split(s, sep) == SplitFrom(s, sep, 1, <<>>)

RECURSIVE DecimalValue(_)
DecimalValue(s) ==
  IF s = <<>> THEN 0
  ELSE 10 * DecimalValue(SubSeq(s, 1, Len(s) - 1)) + DigitVal(s[Len(s)])

\* Number(string) on the strings of the model: the empty string is 0, a run
\* of decimal digits is its value, anything else is NaN.
Number(s) ==
  IF \A i \in 1..Len(s) : s[i] \in Digits
    THEN [nan |-> FALSE, val |-> DecimalValue(s)]
    ELSE [nan |-> TRUE, val |-> 0]

\* `x || 0` for x a number, NaN or undefined (undefined: index past the end)
PartOrZero(parts, i) ==
  IF i > Len(parts) THEN 0
  ELSE IF parts[i].nan THEN 0
  ELSE parts[i].val

Min(a, b) == IF a <= b THEN a ELSE b

Max(a, b) == IF a >= b THEN a ELSE b

(* ----------------------------------------------------------------------- *)
(* compareVersions                                                         *)
(* ----------------------------------------------------------------------- *)
MapNumber(parts) == [i \in 1..Len(parts) |-> Number(parts[i])]

RECURSIVE compareLoopLessOrEqual(_, _, _, _)
compareLoopLessOrEqual(v1Parts, v2Parts, i, maxLength) ==
  IF i > maxLength THEN 0
  ELSE IF PartOrZero(v1Parts, i) <= PartOrZero(v2Parts, i) THEN -1
  ELSE IF PartOrZero(v1Parts, i) > PartOrZero(v2Parts, i) THEN 1
  ELSE compareLoopLessOrEqual(v1Parts, v2Parts, i + 1, maxLength)

RECURSIVE compareLoop(_, _, _, _)
compareLoop(v1Parts, v2Parts, i, maxLength) ==
  IF i > maxLength THEN 0
  ELSE IF PartOrZero(v1Parts, i) < PartOrZero(v2Parts, i) THEN -1
  ELSE IF PartOrZero(v1Parts, i) > PartOrZero(v2Parts, i) THEN 1
  ELSE compareLoop(v1Parts, v2Parts, i + 1, maxLength)

compareVersionsUpToShorter(v1, v2) ==
  LET v1Parts == MapNumber(Split(v1, "."))
      v2Parts == MapNumber(Split(v2, "."))
      maxLength == Min(Len(v1Parts), Len(v2Parts))
  IN  compareLoop(v1Parts, v2Parts, 1, maxLength)

compareVersions(v1, v2) ==
  LET v1Parts == MapNumber(Split(v1, "."))
      v2Parts == MapNumber(Split(v2, "."))
      maxLength == Max(Len(v1Parts), Len(v2Parts))
  IN  compareLoop(v1Parts, v2Parts, 1, maxLength)

(* ----------------------------------------------------------------------- *)
(* Values                                                                  *)
(* ----------------------------------------------------------------------- *)
\* null / undefined for string-valued fields (a tuple no real string equals)
Null == <<"<null>">>

\* JavaScript truthiness of a string-or-null value
Truthy(s) == s # Null /\ s # <<>>

\* String.prototype.trim
RECURSIVE TrimStart(_)
TrimStart(s) ==
  IF s # <<>> /\ Head(s) = " " THEN TrimStart(Tail(s)) ELSE s

RECURSIVE TrimEnd(_)
TrimEnd(s) ==
  IF s # <<>> /\ s[Len(s)] = " " THEN TrimEnd(SubSeq(s, 1, Len(s) - 1)) ELSE s

Trim(s) == TrimEnd(TrimStart(s))

\* String.prototype.includes on messages kept as tuples of phrases
Includes(msg, phrase) == \E i \in 1..Len(msg) : msg[i] = phrase

TokenA == <<"A">>
TokenB == <<"B">>
Tokens == {TokenA, TokenB}

\* what the user can type into the token textarea
FormInputs == {<<>>, <<" ">>, TokenA, <<" ", "A", " ">>, TokenB}

\* the Authorization header value `Bearer ${token}`
Bearer(t) == <<"Bearer ">> \o t

MINIMUM_API_VERSION == <<"0", ".", "1", ".", "0">>

Unknown == <<"unknown">>

\* versions a status response may report in data.version / data.api_version
DataVersions == {Null, <<"0", ".", "1", ".", "0">>, <<"0", ".", "0", ".", "9">>}
DataApiVersions == {Null, <<"1">>}

UrlStatus == <<"/", "s", "t", "a", "t", "u", "s", "/">>
UrlStatusMetrics == <<"/", "s", "t", "a", "t", "u", "s", "/", "m", "e", "t", "r", "i", "c", "s">>
UrlStatusKafka == <<"/", "s", "t", "a", "t", "u", "s", "/", "k", "a", "f", "k", "a", "-", "d", "e", "t", "a", "i", "l", "s">>
UrlStatusJupyter == <<"/", "s", "t", "a", "t", "u", "s", "/", "j", "u", "p", "y", "t", "e", "r">>
UrlOrganization == <<"/", "o", "r", "g", "a", "n", "i", "z", "a", "t", "i", "o", "n">>
UrlUserInfo == <<"/", "u", "s", "e", "r", "/", "i", "n", "f", "o">>

PUBLIC_ENDPOINTS == {UrlStatus, UrlStatusMetrics, UrlStatusKafka, UrlStatusJupyter}

\* paths the rendered pages request through apiClient
PageUrls == {UrlStatusMetrics, UrlOrganization, UrlUserInfo}

(* ----------------------------------------------------------------------- *)
(* State                                                                   *)
(* ----------------------------------------------------------------------- *)
VARIABLES
  gateVariant,     \* which revision of AuthGuard is deployed
  clientVariant,   \* which revision of services/api is deployed
  localStorage,    \* value of localStorage['authToken'], Null when absent
  isAuthenticated, loading, error, token, validatingToken, apiStatus,
  probe,           \* checkApiVersion: "idle" before the mount effect ran
  timer,           \* the setTimeout of checkApiVersion: idle / armed / fired
  raceSettled,     \* Promise.race of checkApiVersion has settled
  authEffect,      \* the token effect: idle / pending (scheduled) / done
  validation,      \* the /user/info request of validateToken in flight
  requests,        \* requests sent through apiClient and not yet answered
  reloadPending,   \* window.location.reload() was called, page not yet gone
  confirmed,       \* history: tokens the server confirmed via /user/info
  lastResponse,    \* history: the response the interceptor handled last
  lastRequest,     \* history: the last call made through apiClient
  lastValidation,  \* history: the validateToken outcome handled by the last step
  version1, version2, result,
  page,            \* the page that the router renders inside the gate
  dashboard,       \* state of the Dashboard component
  datasetManagement, \* state of the DatasetManagement component
  authStatus,      \* state of the AuthStatus component
  storageEvents,   \* 'storage' events queued for this document
  urlResources,    \* state of the UrlResources component
  organizationsPage, \* state of the Organizations component
  services,        \* state of the Services component
  kafkaTopics,     \* state of the KafkaTopics component
  s3Resources,     \* state of the S3Resources component
  container,       \* the files, environment and runs of the frontend container
  classified       \* a dataset record and the pages whose filters accept it

gateVars == <<gateVariant, clientVariant, localStorage, isAuthenticated,
              loading, error, token, validatingToken, apiStatus, probe, timer,
              raceSettled, authEffect, validation, requests, reloadPending,
              confirmed, lastResponse, lastRequest, lastValidation>>

cmpVars == <<version1, version2, result>>

pageVars == <<page, dashboard, datasetManagement, authStatus, storageEvents>>

morePageVars == <<urlResources, organizationsPage, services, kafkaTopics,
                  s3Resources>>

toolVars == <<container, classified>>

vars == <<gateVars, cmpVars, pageVars, morePageVars, toolVars>>

(* ----------------------------------------------------------------------- *)
(* API client: errors and interceptors                                     *)
(* ----------------------------------------------------------------------- *)
NoHeader == <<"<no Authorization header>">>

\* outcomes of an HTTP request as axios reports them
HttpErrorStatuses == {401, 403, 404, 500}

HttpError(status) ==
  [status |-> status, code |-> "ERR_BAD_RESPONSE",
   message |-> <<"Request failed with status code">>]
NetworkError ==
  [status |-> 0, code |-> "ERR_NETWORK", message |-> <<"Network Error">>]
ClientTimeoutError ==
  [status |-> 0, code |-> "ECONNABORTED",
   message |-> <<"timeout of 10000ms exceeded">>]
RaceTimeoutError ==
  [status |-> 0, code |-> "", message |-> <<"API connection timeout">>]
AuthRequiredError ==
  [status |-> 0, code |-> "", message |-> <<"Authentication required">>]

RequestErrors ==
  {HttpError(st) : st \in HttpErrorStatuses} \cup {NetworkError, ClientTimeoutError}

isPublicEndpoint(url) == \E endpoint \in PUBLIC_ENDPOINTS : StartsWith(url, endpoint)

\* apiClient.interceptors.request of the first revision: a token is always
\* required
requestInterceptorV1(url, authToken) ==
  IF Truthy(authToken)
    THEN [sent |-> TRUE, auth |-> Bearer(authToken), reload |-> FALSE,
          error |-> Null]
    ELSE [sent |-> FALSE, auth |-> NoHeader, reload |-> TRUE,
          error |-> AuthRequiredError.message]

requestInterceptorSendsWithoutToken(url, authToken) ==
  IF ~isPublicEndpoint(url) /\ Truthy(authToken)
    THEN [sent |-> TRUE, auth |-> Bearer(authToken), reload |-> FALSE,
          error |-> Null]
    ELSE [sent |-> TRUE, auth |-> NoHeader, reload |-> FALSE, error |-> Null]

\* apiClient.interceptors.request with the public endpoint exceptions
requestInterceptorV2(url, authToken) ==
  IF ~isPublicEndpoint(url)
    THEN IF Truthy(authToken)
           THEN [sent |-> TRUE, auth |-> Bearer(authToken), reload |-> FALSE,
                 error |-> Null]
           ELSE [sent |-> FALSE, auth |-> NoHeader, reload |-> TRUE,
                 error |-> AuthRequiredError.message]
    ELSE [sent |-> TRUE, auth |-> NoHeader, reload |-> FALSE, error |-> Null]

requestInterceptor(url, authToken) ==
  IF clientVariant = "v1" THEN requestInterceptorV1(url, authToken)
                          ELSE requestInterceptorV2(url, authToken)

\* apiClient.interceptors.response, error branch: what it does to the
\* stored token and whether it reloads the page
responseInterceptorV1(url, err, stored) ==
  IF err.status = 401
    THEN [stored |-> Null, reload |-> TRUE, alert |-> "session expired"]
    ELSE IF err.status = 403
      THEN [stored |-> stored, reload |-> FALSE, alert |-> "no permission"]
      ELSE [stored |-> stored, reload |-> FALSE, alert |-> "none"]

responseInterceptorWithoutReload(url, err, stored) ==
  IF ~isPublicEndpoint(url) /\ err.status = 401
    THEN [stored |-> Null, reload |-> FALSE, alert |-> "session expired"]
    ELSE IF ~isPublicEndpoint(url) /\ err.status = 403
      THEN [stored |-> stored, reload |-> FALSE, alert |-> "no permission"]
      ELSE [stored |-> stored, reload |-> FALSE, alert |-> "none"]

responseInterceptorKeepsToken(url, err, stored) ==
  IF ~isPublicEndpoint(url) /\ err.status = 401
    THEN [stored |-> stored, reload |-> TRUE, alert |-> "session expired"]
    ELSE IF ~isPublicEndpoint(url) /\ err.status = 403
      THEN [stored |-> stored, reload |-> FALSE, alert |-> "no permission"]
      ELSE [stored |-> stored, reload |-> FALSE, alert |-> "none"]

responseInterceptorV2(url, err, stored) ==
  IF ~isPublicEndpoint(url) /\ err.status = 401
    THEN [stored |-> Null, reload |-> TRUE, alert |-> "session expired"]
    ELSE IF ~isPublicEndpoint(url) /\ err.status = 403
      THEN [stored |-> stored, reload |-> FALSE, alert |-> "no permission"]
      ELSE [stored |-> stored, reload |-> FALSE, alert |-> "none"]

responseInterceptor(url, err, stored) ==
  IF clientVariant = "v1" THEN responseInterceptorV1(url, err, stored)
                          ELSE responseInterceptorV2(url, err, stored)

NoResponse == [url |-> Null, status |-> 0]

NoError == [status |-> 0, code |-> "", message |-> <<>>]

NoValidationResult ==
  [origin |-> "none", token |-> Null, ok |-> FALSE, err |-> NoError]

NoRequest ==
  [url |-> Null, stored |-> Null, sent |-> FALSE, auth |-> NoHeader,
   error |-> Null]

\* the record of a call: the URL, the stored token when the interceptor ran,
\* and what the interceptor did
requestRecord(url, stored, out) ==
  [url |-> url, stored |-> stored, sent |-> out.sent, auth |-> out.auth,
   error |-> out.error]

(* ----------------------------------------------------------------------- *)
(* Session gate (AuthGuard)                                                *)
(* ----------------------------------------------------------------------- *)
GateVariants == {"basic", "versioncheck", "enhanced"}
ClientVariants == {"v1", "v2"}

\* useState initial value of apiStatus; the basic gate has no such state and
\* never reads it
InitialApiStatus ==
  [checking |-> TRUE, connected |-> FALSE, version |-> Null,
   compatible |-> FALSE, error |-> Null]

NoValidation == [token |-> Null, origin |-> "none"]

hasProbe == gateVariant # "basic"

Checking == hasProbe /\ apiStatus.checking

ViewIgnoringIsAuthenticated ==
  IF loading \/ Checking THEN "loading" ELSE "children"

\* what AuthGuard renders
View ==
  IF loading \/ Checking THEN "loading"
  ELSE IF ~isAuthenticated THEN "form"
  ELSE "children"

\* the state of a freshly mounted gate, before any effect has run
Mounted ==
  /\ isAuthenticated = FALSE
  /\ loading = TRUE
  /\ error = Null
  /\ token = <<>>
  /\ validatingToken = FALSE
  /\ apiStatus = InitialApiStatus
  /\ probe = "idle"
  /\ timer = "idle"
  /\ raceSettled = FALSE
  /\ authEffect = "pending"
  /\ validation = NoValidation
  /\ requests = {}
  /\ reloadPending = FALSE
  /\ lastResponse = NoResponse
  /\ lastRequest = NoRequest
  /\ lastValidation = NoValidationResult

GateInit ==
  /\ gateVariant \in GateVariants
  /\ clientVariant \in ClientVariants
  \* the enhanced gate imports authAPI, which only the second client exports
  /\ gateVariant = "enhanced" => clientVariant = "v2"
  /\ localStorage \in {Null} \cup Tokens
  /\ confirmed = {}
  /\ Mounted

isValidTokenFormat(t) == Truthy(t) /\ Len(Trim(t)) > 0

probeErrorMessageAbove500(err) ==
  IF err.message = <<"API connection timeout">>
    THEN <<"API connection timeout - server may be down">>
  ELSE IF err.status = 401 THEN <<"API authentication required">>
  ELSE IF err.status > 500 THEN <<"API server error">>
  ELSE IF err.code = "NETWORK_ERROR" \/ Includes(err.message, "Network Error")
    THEN <<"Network connection failed">>
  ELSE <<"Unable to connect to API">>

\* catch block of checkApiVersion: classify the error
probeErrorMessage(err) ==
  IF err.message = <<"API connection timeout">>
    THEN <<"API connection timeout - server may be down">>
  ELSE IF err.status = 401 THEN <<"API authentication required">>
  ELSE IF err.status >= 500 THEN <<"API server error">>
  ELSE IF err.code = "NETWORK_ERROR" \/ Includes(err.message, "Network Error")
    THEN <<"Network connection failed">>
  ELSE <<"Unable to connect to API">>

probeFailed(err) ==
  [checking |-> FALSE, connected |-> FALSE, version |-> Null,
   compatible |-> FALSE, error |-> probeErrorMessage(err)]

probeSucceededAlwaysCompatible(data) ==
  LET apiVersion == IF Truthy(data.version) THEN data.version
                    ELSE IF Truthy(data.api_version) THEN data.api_version
                    ELSE Unknown
  IN  [checking |-> FALSE, connected |-> TRUE, version |-> apiVersion,
       compatible |-> TRUE, error |-> Null]

probeSucceeded(data) ==
  LET apiVersion == IF Truthy(data.version) THEN data.version
                    ELSE IF Truthy(data.api_version) THEN data.api_version
                    ELSE Unknown
      isCompatible == IF apiVersion # Unknown
                        THEN compareVersions(apiVersion, MINIMUM_API_VERSION) >= 0
                        ELSE FALSE
  IN  [checking |-> FALSE, connected |-> TRUE, version |-> apiVersion,
       compatible |-> isCompatible, error |-> Null]

config == <<gateVariant, clientVariant>>

\* useEffect(() => { checkApiVersion(); }, []) up to the await of the race.
\* A request the interceptor rejects settles the race in the same task.
checkApiVersion ==
  /\ hasProbe
  /\ probe = "idle"
  /\ timer' = "armed"
  /\ lastRequest' = requestRecord(UrlStatus, localStorage,
                                   requestInterceptor(UrlStatus, localStorage))
  /\ LET out == requestInterceptor(UrlStatus, localStorage)
     IN  IF out.sent
           THEN /\ probe' = "pending"
                /\ requests' = requests \cup
                     {[purpose |-> "probe", url |-> UrlStatus,
                       auth |-> out.auth, stored |-> localStorage]}
                /\ apiStatus' = [apiStatus EXCEPT !.checking = TRUE, !.error = Null]
                /\ UNCHANGED <<raceSettled, authEffect, reloadPending>>
           ELSE /\ probe' = "rejected"
                /\ apiStatus' = probeFailed(AuthRequiredError)
                /\ raceSettled' = TRUE
                /\ authEffect' = "pending"
                /\ reloadPending' = out.reload
                /\ UNCHANGED requests
  /\ lastResponse' = NoResponse
  /\ lastValidation' = NoValidationResult
  /\ UNCHANGED <<config, localStorage, isAuthenticated, loading, error, token,
                 validatingToken, validation, confirmed, cmpVars, morePageVars, toolVars, pageVars>>

\* the status request succeeds: the continuation of the race runs only if
\* the race has not settled yet
ProbeSucceeds(r, data) ==
  /\ r \in requests /\ r.purpose = "probe"
  /\ requests' = requests \ {r}
  /\ probe' = "settled"
  /\ lastResponse' = [url |-> r.url, status |-> 200]
  /\ lastValidation' = NoValidationResult
  /\ IF ~raceSettled
       THEN /\ apiStatus' = probeSucceeded(data)
            /\ raceSettled' = TRUE
            /\ authEffect' = "pending"
       ELSE UNCHANGED <<apiStatus, raceSettled, authEffect>>
  /\ UNCHANGED <<config, localStorage, isAuthenticated, loading, error, token,
                 validatingToken, timer, validation, reloadPending, confirmed,
                 cmpVars, morePageVars, toolVars, pageVars,
                 lastRequest>>

\* the status request fails: response interceptor, then the catch block
ProbeFails(r, err) ==
  /\ r \in requests /\ r.purpose = "probe"
  /\ requests' = requests \ {r}
  /\ probe' = "settled"
  /\ lastResponse' = [url |-> r.url, status |-> err.status]
  /\ lastValidation' = NoValidationResult
  /\ LET ri == responseInterceptor(r.url, err, localStorage)
     IN  /\ localStorage' = ri.stored
         /\ reloadPending' = (reloadPending \/ ri.reload)
  /\ IF ~raceSettled
       THEN /\ apiStatus' = probeFailed(err)
            /\ raceSettled' = TRUE
            /\ authEffect' = "pending"
       ELSE UNCHANGED <<apiStatus, raceSettled, authEffect>>
  /\ UNCHANGED <<config, isAuthenticated, loading, error, token,
                 validatingToken, timer, validation, confirmed, cmpVars, morePageVars, toolVars, pageVars,
                 lastRequest>>

TimerFiresAfterSettlement ==
  /\ timer = "armed"
  /\ timer' = "fired"
  /\ lastResponse' = NoResponse
  /\ lastValidation' = NoValidationResult
  /\ apiStatus' = probeFailed(RaceTimeoutError)
  /\ raceSettled' = TRUE
  /\ authEffect' = "pending"
  /\ UNCHANGED <<config, localStorage, isAuthenticated, loading, error, token,
                 validatingToken, probe, validation, requests, reloadPending,
                 confirmed, cmpVars, morePageVars, toolVars, pageVars,
                 lastRequest>>

TimerFiresWithoutRejecting ==
  /\ timer = "armed"
  /\ timer' = "fired"
  /\ lastResponse' = NoResponse
  /\ lastValidation' = NoValidationResult
  /\ UNCHANGED <<config, localStorage, isAuthenticated, loading, error, token,
                 validatingToken, apiStatus, probe, raceSettled, authEffect,
                 validation, requests, reloadPending, confirmed, cmpVars, morePageVars, toolVars, pageVars,
                 lastRequest>>

\* setTimeout(() => reject(new Error('API connection timeout')), 5000)
TimerFires ==
  /\ timer = "armed"
  /\ timer' = "fired"
  /\ lastResponse' = NoResponse
  /\ lastValidation' = NoValidationResult
  /\ IF ~raceSettled
       THEN /\ apiStatus' = probeFailed(RaceTimeoutError)
            /\ raceSettled' = TRUE
            /\ authEffect' = "pending"
       ELSE UNCHANGED <<apiStatus, raceSettled, authEffect>>
  /\ UNCHANGED <<config, localStorage, isAuthenticated, loading, error, token,
                 validatingToken, probe, validation, requests, reloadPending,
                 confirmed, cmpVars, morePageVars, toolVars, pageVars,
                 lastRequest>>

authEffectNeverReturnsEarly == FALSE

\* `if (apiStatus.checking) return;` at the top of the token effect
authEffectReturnsEarly == Checking

SessionExpired == <<"Your session has expired. Please enter a valid token.">>

checkExistingAuthKeepsLoading ==
  /\ authEffect = "pending"
  \* effects run in declaration order: checkApiVersion first
  /\ hasProbe => probe # "idle"
  /\ authEffect' = "done"
  /\ lastResponse' = NoResponse
  /\ lastValidation' = NoValidationResult
  /\ LET existingToken == localStorage
     IN  IF authEffectReturnsEarly
           THEN UNCHANGED <<localStorage, isAuthenticated, loading, error, validation>>
         ELSE IF Truthy(existingToken) /\ Truthy(Trim(existingToken))
           THEN IF gateVariant = "enhanced"
                  THEN /\ validation' = [token |-> existingToken, origin |-> "existing"]
                       /\ UNCHANGED <<localStorage, isAuthenticated, loading, error>>
                  ELSE /\ IF isValidTokenFormat(existingToken)
                            THEN /\ isAuthenticated' = TRUE
                                 /\ UNCHANGED <<localStorage, error>>
                            ELSE /\ localStorage' = Null
                                 /\ error' = <<"Invalid token. Please enter a valid token.">>
                                 /\ UNCHANGED isAuthenticated
                       /\ loading' = FALSE
                       /\ UNCHANGED validation
           ELSE UNCHANGED <<localStorage, isAuthenticated, loading, error, validation>>
  /\ UNCHANGED <<config, token, validatingToken, apiStatus, probe, timer,
                 raceSettled, requests, reloadPending, confirmed, cmpVars, morePageVars, toolVars, pageVars,
                 lastRequest>>

\* the token effect: checkAuth (basic), the inline effect (versioncheck),
\* checkExistingAuth up to its await (enhanced)
checkExistingAuth ==
  /\ authEffect = "pending"
  \* effects run in declaration order: checkApiVersion first
  /\ hasProbe => probe # "idle"
  /\ authEffect' = "done"
  /\ lastResponse' = NoResponse
  /\ lastValidation' = NoValidationResult
  /\ LET existingToken == localStorage
     IN  IF authEffectReturnsEarly
           THEN UNCHANGED <<localStorage, isAuthenticated, loading, error, validation>>
         ELSE IF Truthy(existingToken) /\ Truthy(Trim(existingToken))
           THEN IF gateVariant = "enhanced"
                  THEN /\ validation' = [token |-> existingToken, origin |-> "existing"]
                       /\ UNCHANGED <<localStorage, isAuthenticated, loading, error>>
                  ELSE /\ IF isValidTokenFormat(existingToken)
                            THEN /\ isAuthenticated' = TRUE
                                 /\ UNCHANGED <<localStorage, error>>
                            ELSE /\ localStorage' = Null
                                 /\ error' = <<"Invalid token. Please enter a valid token.">>
                                 /\ UNCHANGED isAuthenticated
                       /\ loading' = FALSE
                       /\ UNCHANGED validation
           ELSE /\ loading' = FALSE
                /\ UNCHANGED <<localStorage, isAuthenticated, error, validation>>
  /\ UNCHANGED <<config, token, validatingToken, apiStatus, probe, timer,
                 raceSettled, requests, reloadPending, confirmed, cmpVars, morePageVars, toolVars, pageVars,
                 lastRequest>>

\* the Error that the catch block of setAndValidateToken throws
setAndValidateTokenError(err) ==
  IF err.status = 401 THEN <<"Invalid token", "Authentication failed">>
  ELSE IF err.status = 403 THEN <<"Invalid token", "Insufficient permissions">>
  ELSE IF err.code = "ECONNREFUSED" \/ Includes(err.message, "Network Error")
    THEN <<"Cannot connect to API server">>
  ELSE <<"Token validation failed: ">> \o err.message

\* the message that the catch block of handleTokenSubmit shows
submitErrorMessage(errorMessage) ==
  IF Includes(errorMessage, "Invalid token")
    THEN <<"Invalid token. Please check your token and try again.">>
  ELSE IF Includes(errorMessage, "Cannot connect to API server")
    THEN <<"Cannot connect to API server. Please check your connection.">>
  ELSE IF Includes(errorMessage, "Insufficient permissions")
    THEN <<"Token does not have sufficient permissions.">>
  ELSE <<"Authentication failed: ">> \o errorMessage

\* /user/info answers 200 to validateToken
ValidationSucceeds ==
  /\ validation # NoValidation
  /\ validation' = NoValidation
  /\ confirmed' = confirmed \cup {validation.token}
  /\ lastResponse' = NoResponse
  /\ lastValidation' = [origin |-> validation.origin, token |-> validation.token,
                        ok |-> TRUE, err |-> NoError]
  /\ isAuthenticated' = TRUE
  /\ IF validation.origin = "existing"
       THEN /\ loading' = FALSE
            /\ UNCHANGED <<localStorage, token, validatingToken>>
       ELSE /\ localStorage' = Trim(validation.token)
            /\ token' = <<>>
            /\ validatingToken' = FALSE
            /\ UNCHANGED loading
  /\ UNCHANGED <<config, error, apiStatus, probe, timer, raceSettled,
                 authEffect, requests, reloadPending, cmpVars, morePageVars, toolVars, pageVars,
                 lastRequest>>

ValidationFailsAndRetries(err) ==
  /\ validation # NoValidation
  /\ UNCHANGED validation
  /\ lastResponse' = NoResponse
  /\ lastValidation' = [origin |-> validation.origin, token |-> validation.token,
                        ok |-> FALSE, err |-> err]
  /\ localStorage' = Null
  /\ IF validation.origin = "existing"
       THEN /\ error' = SessionExpired
            /\ loading' = FALSE
            /\ UNCHANGED validatingToken
       ELSE /\ error' = submitErrorMessage(setAndValidateTokenError(err))
            /\ validatingToken' = FALSE
            /\ UNCHANGED loading
  /\ UNCHANGED <<config, isAuthenticated, token, apiStatus, probe, timer,
                 raceSettled, authEffect, requests, reloadPending, confirmed,
                 cmpVars, morePageVars, toolVars, pageVars,
                 lastRequest>>

\* validateToken throws: catch of checkExistingAuth, or catch of
\* setAndValidateToken followed by catch/finally of handleTokenSubmit
ValidationFails(err) ==
  /\ validation # NoValidation
  /\ validation' = NoValidation
  /\ lastResponse' = NoResponse
  /\ lastValidation' = [origin |-> validation.origin, token |-> validation.token,
                        ok |-> FALSE, err |-> err]
  /\ localStorage' = Null
  /\ IF validation.origin = "existing"
       THEN /\ error' = SessionExpired
            /\ loading' = FALSE
            /\ UNCHANGED validatingToken
       ELSE /\ error' = submitErrorMessage(setAndValidateTokenError(err))
            /\ validatingToken' = FALSE
            /\ UNCHANGED loading
  /\ UNCHANGED <<config, isAuthenticated, token, apiStatus, probe, timer,
                 raceSettled, authEffect, requests, reloadPending, confirmed,
                 cmpVars, morePageVars, toolVars, pageVars,
                 lastRequest>>

formNeverDisabled == FALSE

\* disabled attribute of the textarea and of the submit button
formDisabled ==
  CASE gateVariant = "basic" -> FALSE
    [] gateVariant = "versioncheck" -> ~apiStatus.connected
    [] gateVariant = "enhanced" -> ~apiStatus.connected \/ validatingToken

\* onChange of the token textarea
SetToken(input) ==
  /\ View = "form"
  /\ ~formDisabled
  /\ token # input
  /\ token' = input
  /\ lastResponse' = NoResponse
  /\ lastValidation' = NoValidationResult
  /\ UNCHANGED <<config, localStorage, isAuthenticated, loading, error,
                 validatingToken, apiStatus, probe, timer, raceSettled,
                 authEffect, validation, requests, reloadPending, confirmed,
                 cmpVars, morePageVars, toolVars, pageVars,
                 lastRequest>>

handleTokenSubmit ==
  /\ View = "form"
  /\ ~formDisabled
  /\ lastResponse' = NoResponse
  /\ lastValidation' = NoValidationResult
  /\ IF ~Truthy(Trim(token))
       THEN /\ error' = <<"Please enter a valid token">>
            /\ UNCHANGED <<localStorage, isAuthenticated, validatingToken, validation>>
       ELSE IF gateVariant = "enhanced"
         THEN /\ error' = Null
              /\ validatingToken' = TRUE
              /\ validation' = [token |-> Trim(Trim(token)), origin |-> "submit"]
              /\ UNCHANGED <<localStorage, isAuthenticated>>
         ELSE IF ~isValidTokenFormat(Trim(token))
           THEN /\ error' = <<"Token cannot be empty. Please enter a valid token.">>
                /\ UNCHANGED <<localStorage, isAuthenticated, validatingToken, validation>>
           ELSE /\ localStorage' = Trim(token)
                /\ error' = Null
                /\ isAuthenticated' = TRUE
                /\ UNCHANGED <<validatingToken, validation>>
  /\ UNCHANGED <<config, loading, token, apiStatus, probe, timer, raceSettled,
                 authEffect, requests, reloadPending, confirmed, cmpVars, morePageVars, toolVars, pageVars,
                 lastRequest>>

\* a rendered page calls one of the API objects (organizationsAPI.list,
\* statusAPI.getMetrics, userAPI.getUserInfo, ...)
PageRequest(url) ==
  /\ View = "children"
  /\ Cardinality({r \in requests : r.purpose = "page"}) < MaxInFlight
  /\ lastResponse' = NoResponse
  /\ lastValidation' = NoValidationResult
  /\ lastRequest' = requestRecord(url, localStorage,
                                   requestInterceptor(url, localStorage))
  /\ LET out == requestInterceptor(url, localStorage)
     IN  IF out.sent
           THEN /\ requests' = requests \cup
                     {[purpose |-> "page", url |-> url, auth |-> out.auth,
                       stored |-> localStorage]}
                /\ UNCHANGED reloadPending
           ELSE /\ reloadPending' = (reloadPending \/ out.reload)
                /\ UNCHANGED requests
  /\ UNCHANGED <<config, localStorage, isAuthenticated, loading, error, token,
                 validatingToken, apiStatus, probe, timer, raceSettled,
                 authEffect, validation, confirmed, cmpVars, morePageVars, toolVars, pageVars>>

PageRequestSucceeds(r) ==
  /\ r \in requests /\ r.purpose = "page"
  /\ requests' = requests \ {r}
  /\ lastResponse' = [url |-> r.url, status |-> 200]
  /\ lastValidation' = NoValidationResult
  /\ UNCHANGED <<config, localStorage, isAuthenticated, loading, error, token,
                 validatingToken, apiStatus, probe, timer, raceSettled,
                 authEffect, validation, reloadPending, confirmed, cmpVars, morePageVars, toolVars, pageVars,
                 lastRequest>>

PageRequestFails(r, err) ==
  /\ r \in requests /\ r.purpose = "page"
  /\ requests' = requests \ {r}
  /\ lastResponse' = [url |-> r.url, status |-> err.status]
  /\ lastValidation' = NoValidationResult
  /\ LET ri == responseInterceptor(r.url, err, localStorage)
     IN  /\ localStorage' = ri.stored
         /\ reloadPending' = (reloadPending \/ ri.reload)
  /\ UNCHANGED <<config, isAuthenticated, loading, error, token,
                 validatingToken, apiStatus, probe, timer, raceSettled,
                 authEffect, validation, confirmed, cmpVars, morePageVars, toolVars, pageVars,
                 lastRequest>>

\* Navigation.handleLogout / AuthStatus.handleLogout, confirmation accepted
handleLogout ==
  /\ View = "children"
  /\ localStorage' = Null
  /\ reloadPending' = TRUE
  /\ lastResponse' = NoResponse
  /\ lastValidation' = NoValidationResult
  /\ UNCHANGED <<config, isAuthenticated, loading, error, token,
                 validatingToken, apiStatus, probe, timer, raceSettled,
                 authEffect, validation, requests, confirmed, cmpVars, morePageVars, toolVars, pageVars,
                 lastRequest>>

\* the data of a 200 answer of GET /status/
ProbeData == [version : DataVersions, api_version : DataApiVersions]

(* ----------------------------------------------------------------------- *)
(* Pages rendered inside the gate                                          *)
(* ----------------------------------------------------------------------- *)
Pages == {"dashboard", "datasets"}

\* the four calls of Promise.allSettled in fetchDashboardData
DashboardCalls == {"getStatus", "getMetrics", "getKafkaDetails", "getUserInfo"}

DashboardUrl(call) ==
  CASE call = "getStatus" -> UrlStatus
    [] call = "getMetrics" -> UrlStatusMetrics
    [] call = "getKafkaDetails" -> UrlStatusKafka
    [] call = "getUserInfo" -> UrlUserInfo

NotCalled == [status |-> "none", auth |-> NoHeader, value |-> <<>>]

\* useState initial values of Dashboard; a state that is null holds <<>>,
\* a state that holds v holds <<v>>
DashboardUnmounted ==
  [mounted |-> FALSE, results |-> [call \in DashboardCalls |-> NotCalled],
   systemStatus |-> <<>>, metrics |-> <<>>, kafkaDetails |-> <<>>,
   userInfo |-> <<>>, apiVersion |-> <<>>, loading |-> TRUE, error |-> Null]

MetricsData == <<"metrics">>
KafkaData == <<"kafka details">>

\* what /user/info answers to the bearer of the Authorization header
UserInfoFor(auth) ==
  [username |-> auth, roles |-> <<"admin">>, groups |-> <<"ndp">>]

DashboardData(call, auth) ==
  CASE call = "getStatus" -> ProbeData
    [] call = "getMetrics" -> {MetricsData}
    [] call = "getKafkaDetails" -> {KafkaData}
    [] call = "getUserInfo" -> {UserInfoFor(auth)}

dashboardSettled(d) ==
  \A call \in DashboardCalls : d.results[call].status \in {"fulfilled", "rejected"}

fetchDashboardDataIgnoresRejection(d) ==
  LET fulfilled(call) == d.results[call].status = "fulfilled"
      value(call) == d.results[call].value
      statusData == value("getStatus")[1]
      version == IF Truthy(statusData.version) THEN statusData.version
                 ELSE IF Truthy(statusData.api_version) THEN statusData.api_version
                 ELSE Unknown
  IN  [d EXCEPT
         !.systemStatus = IF fulfilled("getStatus") THEN value("getStatus") ELSE @,
         !.apiVersion = IF fulfilled("getStatus") THEN <<version>> ELSE @,
         !.metrics = IF fulfilled("getMetrics") THEN value("getMetrics") ELSE @,
         !.kafkaDetails = IF fulfilled("getKafkaDetails")
                            THEN value("getKafkaDetails") ELSE @,
         !.userInfo = <<UserInfoFor(d.results["getUserInfo"].auth)>>,
         !.error = Null,
         !.loading = FALSE]

\* fetchDashboardData after the await of Promise.allSettled (allSettled never
\* rejects, so the catch block is not entered)
fetchDashboardDataContinuation(d) ==
  LET fulfilled(call) == d.results[call].status = "fulfilled"
      value(call) == d.results[call].value
      statusData == value("getStatus")[1]
      version == IF Truthy(statusData.version) THEN statusData.version
                 ELSE IF Truthy(statusData.api_version) THEN statusData.api_version
                 ELSE Unknown
  IN  [d EXCEPT
         !.systemStatus = IF fulfilled("getStatus") THEN value("getStatus") ELSE @,
         !.apiVersion = IF fulfilled("getStatus") THEN <<version>> ELSE @,
         !.metrics = IF fulfilled("getMetrics") THEN value("getMetrics") ELSE @,
         !.kafkaDetails = IF fulfilled("getKafkaDetails")
                            THEN value("getKafkaDetails") ELSE @,
         !.userInfo = IF fulfilled("getUserInfo") THEN value("getUserInfo") ELSE @,
         !.error = Null,
         !.loading = FALSE]

\* the continuation runs in the task in which the last call settles
dashboardAfterSettlement(d) ==
  IF dashboardSettled(d) THEN fetchDashboardDataContinuation(d) ELSE d

\* Dashboard's mount effect: fetchDashboardData up to its await; each call
\* passes the request interceptor
fetchDashboardData ==
  /\ View = "children"
  /\ page = "dashboard"
  /\ ~dashboard.mounted
  /\ LET out(call) == requestInterceptor(DashboardUrl(call), localStorage)
         called == [call \in DashboardCalls |->
                      [status |-> IF out(call).sent THEN "pending" ELSE "rejected",
                       auth |-> out(call).auth, value |-> <<>>]]
     IN  /\ dashboard' = dashboardAfterSettlement(
                           [dashboard EXCEPT !.mounted = TRUE, !.loading = TRUE,
                                             !.results = called])
         /\ reloadPending' =
              (reloadPending \/ \E call \in DashboardCalls : out(call).reload)
  /\ lastRequest' = requestRecord(UrlUserInfo, localStorage,
                                   requestInterceptor(UrlUserInfo, localStorage))
  /\ lastResponse' = NoResponse
  /\ lastValidation' = NoValidationResult
  /\ UNCHANGED <<config, localStorage, isAuthenticated, loading, error, token,
                 validatingToken, apiStatus, probe, timer, raceSettled,
                 authEffect, validation, requests, confirmed, cmpVars, morePageVars, toolVars, page,
                 datasetManagement, authStatus, storageEvents>>

\* one of the four calls is answered with 200
DashboardCallSucceeds(call, data) ==
  /\ dashboard.mounted
  /\ dashboard.results[call].status = "pending"
  /\ dashboard' = dashboardAfterSettlement(
                    [dashboard EXCEPT !.results[call].status = "fulfilled",
                                      !.results[call].value = <<data>>])
  /\ lastResponse' = [url |-> DashboardUrl(call), status |-> 200]
  /\ lastValidation' = NoValidationResult
  /\ UNCHANGED <<config, localStorage, isAuthenticated, loading, error, token,
                 validatingToken, apiStatus, probe, timer, raceSettled,
                 authEffect, validation, requests, reloadPending, confirmed,
                 cmpVars, morePageVars, toolVars, lastRequest, page, datasetManagement, authStatus,
                 storageEvents>>

\* one of the four calls fails: response interceptor, then allSettled
\* records the rejection
DashboardCallFails(call, err) ==
  /\ dashboard.mounted
  /\ dashboard.results[call].status = "pending"
  /\ dashboard' = dashboardAfterSettlement(
                    [dashboard EXCEPT !.results[call].status = "rejected"])
  /\ LET ri == responseInterceptor(DashboardUrl(call), err, localStorage)
     IN  /\ localStorage' = ri.stored
         /\ reloadPending' = (reloadPending \/ ri.reload)
  /\ lastResponse' = [url |-> DashboardUrl(call), status |-> err.status]
  /\ lastValidation' = NoValidationResult
  /\ UNCHANGED <<config, isAuthenticated, loading, error, token,
                 validatingToken, apiStatus, probe, timer, raceSettled,
                 authEffect, validation, requests, confirmed, cmpVars, morePageVars, toolVars,
                 lastRequest, page, datasetManagement, authStatus,
                 storageEvents>>

\* ---- DatasetManagement ----
UrlSearch == <<"/", "s", "e", "a", "r", "c", "h">>
UrlDataset == <<"/", "d", "a", "t", "a", "s", "e", "t">>

\* JSON texts are tuples of lexical pieces; the pieces that may stand
\* between the brackets of a valid text
JsonMembers == {"\"license\":\"mit\""}
JsonElements == {"{\"url\":\"https://host/file\"}"}

\* JSON.parse: an object is the set of its members, an array the tuple of
\* its elements; throws is TRUE where JSON.parse raises SyntaxError
JSONparse(text) ==
  LET t == Trim(text)
      inner == {t[i] : i \in 2..(Len(t) - 1)}
  IN  IF Len(t) >= 2 /\ t[1] = "{" /\ t[Len(t)] = "}" /\ inner \subseteq JsonMembers
        THEN [throws |-> FALSE, value |-> <<inner>>]
      ELSE IF Len(t) >= 2 /\ t[1] = "[" /\ t[Len(t)] = "]" /\ inner \subseteq JsonElements
        THEN [throws |-> FALSE, value |-> <<SubSeq(t, 2, Len(t) - 1)>>]
      ELSE [throws |-> TRUE, value |-> <<>>]

EmptyObject == <<{}>>
EmptyArray == <<<<>>>>

\* DatasetManagement.parseJsonSafely: the catch returns the fallback and
\* reports nothing
parseJsonSafely(jsonString, fallback) ==
  IF Trim(jsonString) = <<>> THEN fallback
  ELSE IF JSONparse(jsonString).throws THEN fallback
  ELSE JSONparse(jsonString).value

ExtrasTexts ==
  {<<"{", "}">>, <<"{", "\"license\":\"mit\"", "}">>, <<"{", "\"license\":">>, <<" ">>}
ResourcesTexts ==
  {<<"[", "]">>, <<"[", "{\"url\":\"https://host/file\"}", "]">>,
   <<"[", "{\"url\":\"https://host/file\"}">>}

\* prepareFormData: the extras and resources of the request body, <<>> where
\* the key is deleted
prepareFormData(extrasJson, resourcesJson) ==
  LET extras == parseJsonSafely(extrasJson, EmptyObject)
      resources == parseJsonSafely(resourcesJson, EmptyArray)
  IN  [extras |-> IF Cardinality(extras[1]) > 0 THEN extras ELSE <<>>,
       resources |-> IF Len(resources[1]) > 0 THEN resources ELSE <<>>]

\* resources of a dataset as the search returns them: url is Null where the
\* resource has none
HttpResource == [url |-> <<"https://", "host", "/file">>, format |-> "CSV"]
S3Resource == [url |-> <<"s3://", "bucket", "/key">>, format |-> "CSV"]
S3HttpResource ==
  [url |-> <<"https://bucket", ".s3.", "us-west-2.amazonaws.com/key">>,
   format |-> "CSV"]
KafkaResource == [url |-> Null, format |-> "kafka"]

\* dataset records as the search returns them
GeneralDataset ==
  [name |-> "survey", owner_org |-> "lab", extras |-> {"license"},
   resources |-> <<>>, notes |-> <<"n">>]
KafkaDataset ==
  [name |-> "stream", owner_org |-> "lab", extras |-> {"kafka_topic"},
   resources |-> <<>>, notes |-> <<>>]
S3Dataset ==
  [name |-> "bucket", owner_org |-> "lab", extras |-> {},
   resources |-> <<S3Resource>>, notes |-> <<>>]
UrlResourceDataset ==
  [name |-> "link", owner_org |-> "lab", extras |-> {},
   resources |-> <<HttpResource>>, notes |-> <<" ">>]
ServiceDataset ==
  [name |-> "svc", owner_org |-> "services", extras |-> {},
   resources |-> <<>>, notes |-> <<"n">>]

SearchData ==
  {<<>>, <<GeneralDataset, KafkaDataset, S3Dataset>>,
   <<UrlResourceDataset, ServiceDataset>>}

OrganizationsData == <<"lab">>

\* url.startsWith('s3://') || url.includes('s3.amazonaws.com') ||
\* url.includes('.s3.')
isS3Url(url) ==
  \/ StartsWith(url, <<"s3://">>)
  \/ Includes(url, "s3.amazonaws.com")
  \/ Includes(url, ".s3.")

\* the filter of fetchDatasets
isGeneralDataset(dataset) ==
  LET extras == dataset.extras
      resources == dataset.resources
  IN  IF "kafka_topic" \in extras \/ "kafka_host" \in extras THEN FALSE
      ELSE IF dataset.owner_org = "services" THEN FALSE
      ELSE IF \E i \in 1..Len(resources) :
                Truthy(resources[i].url) /\ isS3Url(resources[i].url)
        THEN FALSE
      ELSE IF /\ Len(resources) = 1
              /\ Truthy(resources[1].url)
              /\ ~StartsWith(resources[1].url, <<"s3://">>)
              /\ extras = {}
              /\ (~Truthy(dataset.notes) \/ Trim(dataset.notes) = <<>>)
        THEN FALSE
      ELSE TRUE

\* the filter of UrlResources.fetchUrlResources
isUrlResource(dataset) ==
  LET extras == dataset.extras
      resources == dataset.resources
  IN  /\ \E i \in 1..Len(resources) :
           /\ Truthy(resources[i].url)
           /\ ~StartsWith(resources[i].url, <<"s3://">>)
           /\ ~Includes(resources[i].url, "s3.amazonaws.com")
           /\ ~Includes(resources[i].url, ".s3.")
           /\ resources[i].format # "kafka"
      /\ ~(\/ "kafka_topic" \in extras \/ "kafka_host" \in extras
           \/ "topic" \in extras \/ "host" \in extras)
      /\ dataset.owner_org # "services"

\* the filter of S3Resources.fetchS3Resources
isS3Resource(dataset) ==
  LET extras == dataset.extras
      resources == dataset.resources
  IN  /\ \E i \in 1..Len(resources) :
           Truthy(resources[i].url) /\ isS3Url(resources[i].url)
      /\ ~(\/ "kafka_topic" \in extras \/ "kafka_host" \in extras
           \/ "topic" \in extras \/ "host" \in extras)
      /\ dataset.owner_org # "services"

\* the filter of KafkaTopics.fetchKafkaTopics
isKafkaTopic(dataset) ==
  LET extras == dataset.extras
      resources == dataset.resources
  IN  \/ "kafka_topic" \in extras \/ "kafka_host" \in extras
      \/ "kafka_port" \in extras
      \/ "topic" \in extras \/ "host" \in extras \/ "port" \in extras
      \/ \E i \in 1..Len(resources) : resources[i].format = "kafka"

\* the filter of Services.fetchServices
isService(dataset) == dataset.owner_org = "services"

\* dataset records the search may return: the keys of extras that hold a
\* value, the resources, the notes
FilterInputs ==
  [name : {"d"}, owner_org : {"lab", "services"},
   extras : SUBSET {"kafka_topic", "topic", "license"},
   resources : {<<>>, <<HttpResource>>, <<S3Resource>>, <<S3HttpResource>>,
                <<KafkaResource>>, <<HttpResource, S3Resource>>},
   notes : {<<>>, <<"n">>}]

NotClassified == [done |-> FALSE]

\* one record of response.data passed through the filter of each page
applyFilters(dataset) ==
  /\ classified' =
       [done |-> TRUE, dataset |-> dataset,
        general |-> isGeneralDataset(dataset),
        url |-> isUrlResource(dataset),
        s3 |-> isS3Resource(dataset),
        kafka |-> isKafkaTopic(dataset),
        service |-> isService(dataset)]
  /\ UNCHANGED <<gateVars, cmpVars, pageVars, morePageVars, container>>

NoPending == [organizations |-> 0, search |-> 0, create |-> 0, delete |-> 0]

\* useState initial values of DatasetManagement; pending counts the requests
\* in flight, created holds the body of the last POST /dataset, dialog is
\* the last answer to window.confirm
DatasetManagementUnmounted ==
  [mounted |-> FALSE, datasets |-> <<>>, organizations |-> <<>>,
   loading |-> FALSE, error |-> Null, success |-> Null,
   showCreateForm |-> FALSE, extrasJson |-> <<"{", "}">>,
   resourcesJson |-> <<"[", "]">>, pending |-> NoPending, created |-> <<>>,
   dialog |-> "none"]

\* a call through apiClient from the page: the request interceptor
pageCall(url) == requestInterceptor(url, localStorage)

\* fetchDatasets up to its await, applied to the component state dm
fetchDatasetsStart(dm) ==
  IF pageCall(UrlSearch).sent
    THEN [dm EXCEPT !.loading = TRUE, !.error = Null,
                    !.pending.search = @ + 1]
    ELSE [dm EXCEPT !.loading = FALSE,
                    !.error = <<"Failed to load datasets: ">>
                                \o AuthRequiredError.message]

\* useEffect(() => { fetchOrganizations(); fetchDatasets(); }, ...)
DatasetManagementMount ==
  /\ View = "children"
  /\ page = "datasets"
  /\ ~datasetManagement.mounted
  /\ datasetManagement' =
       fetchDatasetsStart(
         [datasetManagement EXCEPT
            !.mounted = TRUE,
            !.pending.organizations =
               IF pageCall(UrlOrganization).sent THEN 1 ELSE 0])
  /\ reloadPending' = (reloadPending \/ pageCall(UrlOrganization).reload
                                     \/ pageCall(UrlSearch).reload)
  /\ lastRequest' = requestRecord(UrlSearch, localStorage, pageCall(UrlSearch))
  /\ lastResponse' = NoResponse
  /\ lastValidation' = NoValidationResult
  /\ UNCHANGED <<config, localStorage, isAuthenticated, loading, error, token,
                 validatingToken, apiStatus, probe, timer, raceSettled,
                 authEffect, validation, requests, confirmed, cmpVars, morePageVars, toolVars, page,
                 dashboard, authStatus, storageEvents>>

\* what a failed response does outside the component: the response
\* interceptor
pageCallFailed(url, err) ==
  LET ri == responseInterceptor(url, err, localStorage)
  IN  /\ localStorage' = ri.stored
      /\ reloadPending' = (reloadPending \/ ri.reload)
      /\ lastResponse' = [url |-> url, status |-> err.status]
      /\ lastValidation' = NoValidationResult
      /\ UNCHANGED <<config, isAuthenticated, loading, error, token,
                     validatingToken, apiStatus, probe, timer, raceSettled,
                     authEffect, validation, requests, confirmed, cmpVars, morePageVars, toolVars,
                     lastRequest, page, dashboard, authStatus, storageEvents>>

pageCallSucceeded(url) ==
  /\ lastResponse' = [url |-> url, status |-> 200]
  /\ lastValidation' = NoValidationResult
  /\ UNCHANGED <<config, localStorage, isAuthenticated, loading, error, token,
                 validatingToken, apiStatus, probe, timer, raceSettled,
                 authEffect, validation, requests, reloadPending, confirmed,
                 cmpVars, morePageVars, toolVars, lastRequest, page, dashboard, authStatus,
                 storageEvents>>

\* fetchOrganizations after its await
OrganizationsListSucceeds ==
  /\ datasetManagement.pending.organizations > 0
  /\ datasetManagement' =
       [datasetManagement EXCEPT !.pending.organizations = @ - 1,
                                 !.organizations = OrganizationsData]
  /\ pageCallSucceeded(UrlOrganization)

\* fetchOrganizations, catch: console.error only
OrganizationsListFails(err) ==
  /\ datasetManagement.pending.organizations > 0
  /\ datasetManagement' =
       [datasetManagement EXCEPT !.pending.organizations = @ - 1]
  /\ pageCallFailed(UrlOrganization, err)

\* fetchDatasets after its await: filter, setDatasets, finally
SearchSucceeds(data) ==
  /\ datasetManagement.pending.search > 0
  /\ datasetManagement' =
       [datasetManagement EXCEPT !.pending.search = @ - 1,
                                 !.datasets = SelectSeq(data, isGeneralDataset),
                                 !.loading = FALSE]
  /\ pageCallSucceeded(UrlSearch)

\* fetchDatasets, catch and finally
SearchFails(err) ==
  /\ datasetManagement.pending.search > 0
  /\ datasetManagement' =
       [datasetManagement EXCEPT
          !.pending.search = @ - 1,
          !.error = <<"Failed to load datasets: ">> \o err.message,
          !.loading = FALSE]
  /\ pageCallFailed(UrlSearch, err)

pageOnly ==
  /\ lastResponse' = NoResponse
  /\ lastValidation' = NoValidationResult
  /\ UNCHANGED <<config, localStorage, isAuthenticated, loading, error, token,
                 validatingToken, apiStatus, probe, timer, raceSettled,
                 authEffect, validation, requests, reloadPending, confirmed,
                 cmpVars, morePageVars, toolVars, lastRequest, page, dashboard, authStatus,
                 storageEvents>>

\* the "Create Dataset" button: setShowCreateForm(!showCreateForm)
ToggleCreateForm ==
  /\ datasetManagement.mounted
  /\ datasetManagement' =
       [datasetManagement EXCEPT !.showCreateForm = ~@]
  /\ pageOnly

\* onChange of the Extras (JSON) textarea
SetExtrasJson(text) ==
  /\ datasetManagement.mounted
  /\ datasetManagement.showCreateForm
  /\ datasetManagement.extrasJson # text
  /\ datasetManagement' = [datasetManagement EXCEPT !.extrasJson = text]
  /\ pageOnly

\* onChange of the Resources (JSON) textarea
SetResourcesJson(text) ==
  /\ datasetManagement.mounted
  /\ datasetManagement.showCreateForm
  /\ datasetManagement.resourcesJson # text
  /\ datasetManagement' = [datasetManagement EXCEPT !.resourcesJson = text]
  /\ pageOnly

\* handleCreate up to its await; the submit button is disabled while loading
handleCreate ==
  /\ datasetManagement.mounted
  /\ datasetManagement.showCreateForm
  /\ ~datasetManagement.loading
  /\ datasetManagement.pending.create < MaxPageRequests
  /\ LET requestData == prepareFormData(datasetManagement.extrasJson,
                                        datasetManagement.resourcesJson)
     IN  IF pageCall(UrlDataset).sent
           THEN datasetManagement' =
                  [datasetManagement EXCEPT
                     !.error = Null, !.success = Null, !.loading = TRUE,
                     !.pending.create = @ + 1, !.created = <<requestData>>]
           ELSE datasetManagement' =
                  [datasetManagement EXCEPT
                     !.error = <<"Failed to create dataset: ">>
                                 \o AuthRequiredError.message,
                     !.success = Null, !.loading = FALSE]
  /\ reloadPending' = (reloadPending \/ pageCall(UrlDataset).reload)
  /\ lastRequest' = requestRecord(UrlDataset, localStorage, pageCall(UrlDataset))
  /\ lastResponse' = NoResponse
  /\ lastValidation' = NoValidationResult
  /\ UNCHANGED <<config, localStorage, isAuthenticated, loading, error, token,
                 validatingToken, apiStatus, probe, timer, raceSettled,
                 authEffect, validation, requests, confirmed, cmpVars, morePageVars, toolVars, page,
                 dashboard, authStatus, storageEvents>>

\* handleCreate after its await: setSuccess, resetForm, fetchDatasets()
\* (not awaited), then finally setLoading(false)
CreateSucceeds ==
  /\ datasetManagement.pending.create > 0
  /\ datasetManagement.pending.search < MaxPageRequests
  /\ LET afterReset ==
           [datasetManagement EXCEPT
              !.pending.create = @ - 1,
              !.success = <<"Dataset created successfully!">>,
              !.extrasJson = <<"{", "}">>, !.resourcesJson = <<"[", "]">>,
              !.showCreateForm = FALSE]
     IN  datasetManagement' = [fetchDatasetsStart(afterReset) EXCEPT !.loading = FALSE]
  /\ reloadPending' = (reloadPending \/ pageCall(UrlSearch).reload)
  /\ lastRequest' = requestRecord(UrlSearch, localStorage, pageCall(UrlSearch))
  /\ lastResponse' = [url |-> UrlDataset, status |-> 200]
  /\ lastValidation' = NoValidationResult
  /\ UNCHANGED <<config, localStorage, isAuthenticated, loading, error, token,
                 validatingToken, apiStatus, probe, timer, raceSettled,
                 authEffect, validation, requests, confirmed, cmpVars, morePageVars, toolVars, page,
                 dashboard, authStatus, storageEvents>>

\* handleCreate, catch and finally
CreateFails(err) ==
  /\ datasetManagement.pending.create > 0
  /\ datasetManagement' =
       [datasetManagement EXCEPT
          !.pending.create = @ - 1,
          !.error = <<"Failed to create dataset: ">> \o err.message,
          !.loading = FALSE]
  /\ pageCallFailed(UrlDataset, err)

\* ---- calls of the pages through apiClient, without the history of the
\* gate's requests ----
otherGateVars ==
  <<config, isAuthenticated, loading, error, token, validatingToken,
    apiStatus, probe, timer, raceSettled, authEffect, validation, requests,
    confirmed, lastRequest, lastResponse, lastValidation>>

\* the part of a call that is outside the component, up to the await
callIssued(url) ==
  /\ reloadPending' = (reloadPending \/ pageCall(url).reload)
  /\ UNCHANGED <<otherGateVars, localStorage, cmpVars, toolVars, page>>

\* a failed response: the response interceptor
callFailed(url, err) ==
  LET ri == responseInterceptor(url, err, localStorage)
  IN  /\ localStorage' = ri.stored
      /\ reloadPending' = (reloadPending \/ ri.reload)
      /\ UNCHANGED <<otherGateVars, cmpVars, toolVars, page>>

callSucceeded(url) ==
  UNCHANGED <<otherGateVars, localStorage, reloadPending, cmpVars, toolVars,
              page>>

\* a successful response whose continuation issues the next call
callSucceededThen(url, nextUrl) ==
  /\ reloadPending' = (reloadPending \/ pageCall(nextUrl).reload)
  /\ UNCHANGED <<otherGateVars, localStorage, cmpVars, toolVars, page>>

\* a handler that sends nothing
componentOnly ==
  UNCHANGED <<otherGateVars, localStorage, reloadPending, cmpVars, toolVars,
              page>>

UrlResource == <<"/", "r", "e", "s", "o", "u", "r", "c", "e">>

\* the message that the catch block of handleDeleteDataset shows
deleteDatasetErrorMessage(err) ==
  <<"Failed to delete dataset: ">> \o
    (IF err.status = 404
       THEN <<"Dataset not found. It may have been already deleted.">>
     ELSE IF err.status = 405 THEN <<"Dataset deletion method not allowed.">>
     ELSE IF err.status = 401
       THEN <<"Authentication required. Please login again.">>
     ELSE IF err.status = 403
       THEN <<"You do not have permission to delete this dataset.">>
     ELSE err.message)

\* handleDeleteDataset up to its await; the button is in the rows of the
\* list, which is rendered unless the spinner replaces it
handleDeleteDataset(accepted) ==
  /\ datasetManagement.mounted
  /\ ~(datasetManagement.loading /\ ~datasetManagement.showCreateForm)
  /\ datasetManagement.datasets # <<>>
  /\ datasetManagement.pending.delete < MaxPageRequests
  /\ IF ~accepted
       THEN /\ datasetManagement' = [datasetManagement EXCEPT !.dialog = "declined"]
            /\ pageOnly
       ELSE /\ datasetManagement' =
                 IF pageCall(UrlResource).sent
                   THEN [datasetManagement EXCEPT
                           !.dialog = "accepted", !.error = Null,
                           !.success = Null, !.pending.delete = @ + 1]
                   ELSE [datasetManagement EXCEPT
                           !.dialog = "accepted", !.success = Null,
                           !.error = deleteDatasetErrorMessage(AuthRequiredError)]
            /\ callIssued(UrlResource)
            /\ UNCHANGED <<morePageVars, dashboard, authStatus, storageEvents>>

\* handleDeleteDataset after its await: setSuccess, fetchDatasets()
DeleteDatasetSucceeds ==
  /\ datasetManagement.pending.delete > 0
  /\ datasetManagement.pending.search < MaxPageRequests
  /\ datasetManagement' =
       fetchDatasetsStart(
         [datasetManagement EXCEPT
            !.pending.delete = @ - 1,
            !.success = <<"Dataset deleted successfully!">>])
  /\ callSucceededThen(UrlResource, UrlSearch)
  /\ UNCHANGED <<morePageVars, dashboard, authStatus, storageEvents>>

\* handleDeleteDataset, catch
DeleteDatasetFails(err) ==
  /\ datasetManagement.pending.delete > 0
  /\ datasetManagement' =
       [datasetManagement EXCEPT
          !.pending.delete = @ - 1,
          !.error = deleteDatasetErrorMessage(err)]
  /\ pageCallFailed(UrlResource, err)

\* ---- AuthStatus ----
\* useState initial values of AuthStatus
AuthStatusUnmounted ==
  [mounted |-> FALSE, isAuthenticated |-> FALSE, tokenPreview |-> <<>>]

\* a token of more than 12 characters
LongToken ==
  <<"e", "y", "J", "h", "b", "G", "c", "i", "O", "i", "J", "I", "U", "z">>

StoredTokens == Tokens \cup {LongToken}

checkAuthStatusWithoutClearing(as) ==
  LET storedToken == localStorage
      authenticated == Truthy(storedToken)
      preview == IF Len(storedToken) > 12
                   THEN SubSeq(storedToken, 1, 6) \o <<".", ".", ".">>
                        \o SubSeq(storedToken, Len(storedToken) - 5, Len(storedToken))
                   ELSE storedToken
  IN  IF authenticated
        THEN [as EXCEPT !.isAuthenticated = TRUE, !.tokenPreview = preview]
        ELSE as

\* AuthStatus.checkAuthStatus applied to the component state as
checkAuthStatus(as) ==
  LET storedToken == localStorage
      authenticated == Truthy(storedToken)
      preview == IF Len(storedToken) > 12
                   THEN SubSeq(storedToken, 1, 6) \o <<".", ".", ".">>
                        \o SubSeq(storedToken, Len(storedToken) - 5, Len(storedToken))
                   ELSE storedToken
  IN  IF authenticated
        THEN [as EXCEPT !.isAuthenticated = TRUE, !.tokenPreview = preview]
        ELSE [as EXCEPT !.isAuthenticated = FALSE, !.tokenPreview = <<>>]

\* what an AuthStatus step leaves alone
authStatusOnly ==
  /\ lastResponse' = NoResponse
  /\ lastValidation' = NoValidationResult
  /\ UNCHANGED <<config, isAuthenticated, loading, error, token,
                 validatingToken, apiStatus, probe, timer, raceSettled,
                 authEffect, validation, requests, confirmed, cmpVars, morePageVars, toolVars,
                 lastRequest, page, dashboard, datasetManagement>>

\* both mount effects: checkAuthStatus(), addEventListener('storage'),
\* setInterval(checkAuthStatus, 1000)
AuthStatusMount ==
  /\ ~authStatus.mounted
  /\ authStatus' = checkAuthStatus([authStatus EXCEPT !.mounted = TRUE])
  /\ UNCHANGED <<localStorage, reloadPending, storageEvents>>
  /\ authStatusOnly

\* the interval fires
PollTick ==
  /\ authStatus.mounted
  /\ authStatus' = checkAuthStatus(authStatus)
  /\ UNCHANGED <<localStorage, reloadPending, storageEvents>>
  /\ authStatusOnly

\* a queued 'storage' event reaches handleStorageChange
handleStorageChange ==
  /\ authStatus.mounted
  /\ storageEvents > 0
  /\ storageEvents' = storageEvents - 1
  /\ authStatus' = checkAuthStatus(authStatus)
  /\ UNCHANGED <<localStorage, reloadPending>>
  /\ authStatusOnly

\* another tab of the same origin stores a token; this document gets a
\* 'storage' event if it listens
OtherTabStores(t) ==
  /\ localStorage # t
  /\ storageEvents < MaxStorageEvents
  /\ localStorage' = t
  /\ storageEvents' = IF authStatus.mounted THEN storageEvents + 1 ELSE storageEvents
  /\ UNCHANGED <<authStatus, reloadPending>>
  /\ authStatusOnly

\* another tab removes the token
OtherTabRemoves ==
  /\ localStorage # Null
  /\ storageEvents < MaxStorageEvents
  /\ localStorage' = Null
  /\ storageEvents' = IF authStatus.mounted THEN storageEvents + 1 ELSE storageEvents
  /\ UNCHANGED <<authStatus, reloadPending>>
  /\ authStatusOnly

\* LoginModal.handleTokenLogin, opened from the Login button of AuthStatus:
\* the same tab stores the token, no 'storage' event is raised here
handleTokenLogin(manualToken) ==
  /\ authStatus.mounted
  /\ ~authStatus.isAuthenticated
  /\ Truthy(Trim(manualToken))
  /\ localStorage' = Trim(manualToken)
  /\ UNCHANGED <<authStatus, reloadPending, storageEvents>>
  /\ authStatusOnly

\* AuthStatus.handleLogout, confirmation accepted
AuthStatusLogout ==
  /\ authStatus.mounted
  /\ authStatus.isAuthenticated
  /\ localStorage' = Null
  /\ authStatus' = [authStatus EXCEPT !.isAuthenticated = FALSE,
                                      !.tokenPreview = <<>>]
  /\ reloadPending' = TRUE
  /\ UNCHANGED storageEvents
  /\ authStatusOnly

\* ---- UrlResources ----
UrlUrl == <<"/", "u", "r", "l">>

\* texts of the Extras, Mapping and Processing editors: '{}' and a text that
\* JSON.parse rejects
ObjectTexts == {<<"{", "}">>, <<"{", "\"license\":\"mit\"">>}

\* `Invalid ${fieldName} format. Please check your JSON syntax.`
invalidFormatMessage(fieldName) ==
  <<"Invalid", " ", fieldName, " ", "format", ". Please check your JSON syntax.">>

\* UrlResources.parseJsonSafely: value is what it returns, error holds the
\* message of its setError call, <<>> when it makes none
urlParseJsonSafely(jsonString, fallback, fieldName) ==
  IF ~Truthy(jsonString) \/ Trim(jsonString) = <<>>
    THEN [value |-> fallback, error |-> <<>>]
  ELSE IF JSONparse(jsonString).throws
    THEN [value |-> fallback, error |-> <<invalidFormatMessage(fieldName)>>]
  ELSE [value |-> JSONparse(jsonString).value, error |-> <<>>]

\* useState initial values of UrlResources; pending counts the requests in
\* flight, dialog is the last answer to window.confirm
UrlResourcesUnmounted ==
  [mounted |-> FALSE, urlResources |-> <<>>, loading |-> FALSE,
   error |-> Null, success |-> Null, showCreateForm |-> FALSE,
   editingResource |-> <<>>, extrasJson |-> <<"{", "}">>,
   mappingJson |-> <<"{", "}">>, processingJson |-> <<"{", "}">>,
   pending |-> [organizations |-> 0, search |-> 0, create |-> 0,
                update |-> 0, delete |-> 0],
   dialog |-> "none"]

\* UrlResources.prepareFormData in the render whose state is ur: error is
\* the error of that render, whatever setError calls were made since; data
\* is <<>> for the early return of null; setError holds the message of the
\* last setError call made by the three parses
urlPrepareFormData(ur) ==
  LET extras == urlParseJsonSafely(ur.extrasJson, EmptyObject, "Extras")
      mapping == urlParseJsonSafely(ur.mappingJson, EmptyObject, "Mapping")
      processing == urlParseJsonSafely(ur.processingJson, EmptyObject, "Processing")
      lastError == IF processing.error # <<>> THEN processing.error
                   ELSE IF mapping.error # <<>> THEN mapping.error
                   ELSE extras.error
      content(parsed) == IF Cardinality(parsed.value[1]) > 0
                           THEN parsed.value ELSE <<>>
  IN  IF Truthy(ur.error) /\ Includes(ur.error, "Invalid")
                          /\ Includes(ur.error, "format")
        THEN [data |-> <<>>, setError |-> lastError]
        ELSE [data |-> <<[extras |-> content(extras),
                          mapping |-> content(mapping),
                          processing |-> content(processing)]>>,
              setError |-> lastError]

urlResourcesOnly ==
  UNCHANGED <<pageVars, organizationsPage, services, kafkaTopics, s3Resources>>

\* fetchUrlResources up to its await, applied to the component state ur
fetchUrlResourcesStart(ur) ==
  IF pageCall(UrlSearch).sent
    THEN [ur EXCEPT !.loading = TRUE, !.error = Null, !.pending.search = @ + 1]
    ELSE [ur EXCEPT !.loading = FALSE,
                    !.error = <<"Failed to load URL resources: ">>
                                \o AuthRequiredError.message]

\* useEffect(() => { fetchOrganizations(); fetchUrlResources(); }, ...)
UrlResourcesMount ==
  /\ View = "children"
  /\ page = "url-resources"
  /\ ~urlResources.mounted
  /\ urlResources' =
       fetchUrlResourcesStart(
         [urlResources EXCEPT
            !.mounted = TRUE,
            !.pending.organizations =
               IF pageCall(UrlOrganization).sent THEN 1 ELSE 0])
  /\ reloadPending' = (reloadPending \/ pageCall(UrlOrganization).reload
                                     \/ pageCall(UrlSearch).reload)
  /\ UNCHANGED <<otherGateVars, localStorage, cmpVars, toolVars, page>>
  /\ urlResourcesOnly

\* UrlResources.fetchOrganizations after its await
UrlOrganizationsSucceeds ==
  /\ urlResources.pending.organizations > 0
  /\ urlResources' = [urlResources EXCEPT !.pending.organizations = @ - 1]
  /\ callSucceeded(UrlOrganization)
  /\ urlResourcesOnly

\* UrlResources.fetchOrganizations, catch: console.error only
UrlOrganizationsFails(err) ==
  /\ urlResources.pending.organizations > 0
  /\ urlResources' = [urlResources EXCEPT !.pending.organizations = @ - 1]
  /\ callFailed(UrlOrganization, err)
  /\ urlResourcesOnly

\* fetchUrlResources after its await: filter, setUrlResources, finally
UrlSearchSucceeds(data) ==
  /\ urlResources.pending.search > 0
  /\ urlResources' =
       [urlResources EXCEPT !.pending.search = @ - 1,
                            !.urlResources = SelectSeq(data, isUrlResource),
                            !.loading = FALSE]
  /\ callSucceeded(UrlSearch)
  /\ urlResourcesOnly

\* fetchUrlResources, catch and finally
UrlSearchFails(err) ==
  /\ urlResources.pending.search > 0
  /\ urlResources' =
       [urlResources EXCEPT
          !.pending.search = @ - 1,
          !.error = <<"Failed to load URL resources: ">> \o err.message,
          !.loading = FALSE]
  /\ callFailed(UrlSearch, err)
  /\ urlResourcesOnly

\* the "Create URL Resource" / "Cancel" button
ToggleUrlCreateForm ==
  /\ urlResources.mounted
  /\ urlResources' = [urlResources EXCEPT !.showCreateForm = ~@]
  /\ componentOnly
  /\ urlResourcesOnly

\* onChange of the Extras, Mapping and Processing textareas
SetUrlExtrasJson(text) ==
  /\ urlResources.mounted
  /\ urlResources.showCreateForm
  /\ urlResources.extrasJson # text
  /\ urlResources' = [urlResources EXCEPT !.extrasJson = text]
  /\ componentOnly
  /\ urlResourcesOnly

SetMappingJson(text) ==
  /\ urlResources.mounted
  /\ urlResources.showCreateForm
  /\ urlResources.mappingJson # text
  /\ urlResources' = [urlResources EXCEPT !.mappingJson = text]
  /\ componentOnly
  /\ urlResourcesOnly

SetProcessingJson(text) ==
  /\ urlResources.mounted
  /\ urlResources.showCreateForm
  /\ urlResources.processingJson # text
  /\ urlResources' = [urlResources EXCEPT !.processingJson = text]
  /\ componentOnly
  /\ urlResourcesOnly

\* JSON.stringify of the extras of a listed resource
urlStringify(extras) ==
  IF extras = {} THEN <<"{", "}">> ELSE <<"{", "\"license\":\"mit\"", "}">>

\* UrlResources.startEditing: the Edit button in the rows of the list
startEditing(resource) ==
  /\ urlResources.mounted
  /\ ~(urlResources.loading /\ ~urlResources.showCreateForm)
  /\ \E i \in 1..Len(urlResources.urlResources) :
       urlResources.urlResources[i] = resource
  /\ urlResources.editingResource # <<resource>>
  /\ urlResources' =
       [urlResources EXCEPT
          !.editingResource = <<resource>>,
          !.extrasJson = urlStringify(resource.extras),
          !.mappingJson = <<"{", "}">>,
          !.processingJson = <<"{", "}">>,
          !.showCreateForm = TRUE]
  /\ componentOnly
  /\ urlResourcesOnly

\* the path of urlAPI.create and of urlAPI.update
urlSubmitUrl(kind) ==
  IF kind = "create" THEN UrlUrl ELSE UrlUrl \o <<"/", "id">>

\* the submit handlers of the form up to their await: handleCreate when no
\* resource is edited, handleUpdate otherwise. The plain inputs of the form
\* are filled, so that handleUpdate finds no missing field. The submit
\* button is disabled while loading.
urlSubmit(kind) ==
  /\ urlResources.mounted
  /\ urlResources.showCreateForm
  /\ ~urlResources.loading
  /\ LET requestData == urlPrepareFormData(urlResources)
         afterParses == IF requestData.setError # <<>>
                          THEN requestData.setError[1] ELSE Null
         failed == IF kind = "create"
                     THEN <<"Failed to create URL resource: ">>
                     ELSE <<"Failed to update URL resource: ">>
     IN  IF requestData.data = <<>>
           THEN /\ urlResources' =
                     [urlResources EXCEPT !.error = afterParses,
                                          !.success = Null,
                                          !.loading = FALSE]
                /\ componentOnly
           ELSE /\ urlResources.pending[kind] < MaxPageRequests
                /\ urlResources' =
                     IF pageCall(urlSubmitUrl(kind)).sent
                       THEN [urlResources EXCEPT
                               !.error = afterParses, !.success = Null,
                               !.loading = TRUE, !.pending[kind] = @ + 1]
                       ELSE [urlResources EXCEPT
                               !.error = failed \o AuthRequiredError.message,
                               !.success = Null, !.loading = FALSE]
                /\ callIssued(urlSubmitUrl(kind))
  /\ urlResourcesOnly

\* UrlResources.handleCreate up to its await
urlHandleCreate ==
  /\ urlResources.editingResource = <<>>
  /\ urlSubmit("create")

\* UrlResources.handleUpdate up to its await
urlHandleUpdate ==
  /\ urlResources.editingResource # <<>>
  /\ urlSubmit("update")

\* handleCreate / handleUpdate after the await: setSuccess, resetForm,
\* fetchUrlResources() (not awaited), then finally setLoading(false)
UrlSubmitSucceeds(kind) ==
  /\ urlResources.pending[kind] > 0
  /\ urlResources.pending.search < MaxPageRequests
  /\ LET afterReset ==
           [urlResources EXCEPT
              !.pending[kind] = @ - 1,
              !.success = IF kind = "create"
                            THEN <<"URL resource created successfully!">>
                            ELSE <<"URL resource updated successfully!">>,
              !.extrasJson = <<"{", "}">>, !.mappingJson = <<"{", "}">>,
              !.processingJson = <<"{", "}">>,
              !.editingResource = <<>>, !.showCreateForm = FALSE]
     IN  urlResources' =
           [fetchUrlResourcesStart(afterReset) EXCEPT !.loading = FALSE]
  /\ callSucceededThen(urlSubmitUrl(kind), UrlSearch)
  /\ urlResourcesOnly

\* the message of the catch block of handleCreate / handleUpdate
urlSubmitErrorMessage(kind, err) ==
  IF kind = "create" THEN <<"Failed to create URL resource: ">> \o err.message
  ELSE <<"Failed to update URL resource: ">> \o
         (IF err.status = 404
            THEN <<"Resource not found. It may have been deleted.">>
          ELSE err.message)

\* handleCreate / handleUpdate, catch and finally
UrlSubmitFails(kind, err) ==
  /\ urlResources.pending[kind] > 0
  /\ urlResources' =
       [urlResources EXCEPT
          !.pending[kind] = @ - 1,
          !.error = urlSubmitErrorMessage(kind, err),
          !.loading = FALSE]
  /\ callFailed(urlSubmitUrl(kind), err)
  /\ urlResourcesOnly

\* the message that the catch block of handleDeleteResource shows
deleteResourceErrorMessage(err) ==
  <<"Failed to delete URL resource: ">> \o
    (IF err.status = 404
       THEN <<"Resource not found. It may have been already deleted.">>
     ELSE IF err.status = 405 THEN <<"Resource deletion method not allowed.">>
     ELSE IF err.status = 401
       THEN <<"Authentication required. Please login again.">>
     ELSE IF err.status = 403
       THEN <<"You do not have permission to delete this resource.">>
     ELSE err.message)

\* UrlResources.handleDeleteResource up to its await
handleDeleteResource(accepted) ==
  /\ urlResources.mounted
  /\ ~(urlResources.loading /\ ~urlResources.showCreateForm)
  /\ urlResources.urlResources # <<>>
  /\ urlResources.pending.delete < MaxPageRequests
  /\ IF ~accepted
       THEN /\ urlResources' = [urlResources EXCEPT !.dialog = "declined"]
            /\ componentOnly
       ELSE /\ urlResources' =
                 IF pageCall(UrlResource).sent
                   THEN [urlResources EXCEPT
                           !.dialog = "accepted", !.error = Null,
                           !.success = Null, !.pending.delete = @ + 1]
                   ELSE [urlResources EXCEPT
                           !.dialog = "accepted", !.success = Null,
                           !.error = deleteResourceErrorMessage(AuthRequiredError)]
            /\ callIssued(UrlResource)
  /\ urlResourcesOnly

\* handleDeleteResource after its await: setSuccess, fetchUrlResources()
UrlDeleteSucceeds ==
  /\ urlResources.pending.delete > 0
  /\ urlResources.pending.search < MaxPageRequests
  /\ urlResources' =
       fetchUrlResourcesStart(
         [urlResources EXCEPT
            !.pending.delete = @ - 1,
            !.success = <<"URL resource deleted successfully!">>])
  /\ callSucceededThen(UrlResource, UrlSearch)
  /\ urlResourcesOnly

\* handleDeleteResource, catch
UrlDeleteFails(err) ==
  /\ urlResources.pending.delete > 0
  /\ urlResources' =
       [urlResources EXCEPT
          !.pending.delete = @ - 1,
          !.error = deleteResourceErrorMessage(err)]
  /\ callFailed(UrlResource, err)
  /\ urlResourcesOnly

\* ---- Organizations ----
\* the options of the server select
OrganizationServers == {"global", "local", "pre_ckan"}

\* the lists (organization names) that GET /organization may answer with
OrganizationLists(server) ==
  IF server = "global" THEN {<<"ndp">>}
  ELSE IF server = "local" THEN {<<"lab">>, <<>>}
  ELSE {<<>>}

\* `/organization/${organizationName}`
UrlOrganizationItem(orgName) == UrlOrganization \o <<"/", orgName>>

\* useState initial values of Organizations; listRequests holds the list
\* requests in flight, numbered in the order of their issue (issued counts
\* them), shown is the number of the request whose answer is displayed;
\* deleting holds the name of a DELETE in flight, dialog is the last answer
\* to window.confirm
OrganizationsUnmounted ==
  [mounted |-> FALSE, organizations |-> <<>>, loading |-> TRUE,
   error |-> Null, success |-> Null, selectedServer |-> "global",
   listRequests |-> {}, issued |-> 0, shown |-> 0,
   deleting |-> <<>>, dialog |-> "none"]

\* Organizations.fetchOrganizations up to its await, applied to the
\* component state op, for the server the calling render selected
fetchOrganizationsStart(op, server) ==
  IF pageCall(UrlOrganization).sent
    THEN [op EXCEPT !.loading = TRUE, !.error = Null,
                    !.issued = @ + 1,
                    !.listRequests = @ \cup {[seq |-> op.issued + 1,
                                              server |-> server]}]
    ELSE [op EXCEPT !.loading = FALSE,
                    !.error = <<"Failed to load organizations: ">>
                                \o AuthRequiredError.message]

\* list requests that may still be issued, one kept for the refresh of a
\* DELETE in flight
listBudget(op) ==
  MaxListRequests - op.issued - (IF op.deleting # <<>> THEN 1 ELSE 0)

organizationsOnly ==
  UNCHANGED <<pageVars, urlResources, services, kafkaTopics, s3Resources>>

\* useEffect(() => { fetchOrganizations(); }, [selectedServer]) on mount
OrganizationsMount ==
  /\ View = "children"
  /\ page = "organizations"
  /\ ~organizationsPage.mounted
  /\ organizationsPage' =
       fetchOrganizationsStart([organizationsPage EXCEPT !.mounted = TRUE],
                               organizationsPage.selectedServer)
  /\ callIssued(UrlOrganization)
  /\ organizationsOnly

\* onChange of the server select, and the effect that follows the render
SetSelectedServer(server) ==
  /\ organizationsPage.mounted
  /\ server # organizationsPage.selectedServer
  /\ listBudget(organizationsPage) > 0
  /\ organizationsPage' =
       fetchOrganizationsStart(
         [organizationsPage EXCEPT !.selectedServer = server], server)
  /\ callIssued(UrlOrganization)
  /\ organizationsOnly

\* Organizations.handleSearch
handleSearch ==
  /\ organizationsPage.mounted
  /\ listBudget(organizationsPage) > 0
  /\ organizationsPage' =
       fetchOrganizationsStart(organizationsPage,
                               organizationsPage.selectedServer)
  /\ callIssued(UrlOrganization)
  /\ organizationsOnly

\* fetchOrganizations after its await: setOrganizations, finally
OrganizationsPageListSucceeds(r, data) ==
  /\ r \in organizationsPage.listRequests
  /\ organizationsPage' =
       [organizationsPage EXCEPT !.listRequests = @ \ {r},
                                 !.organizations = data,
                                 !.shown = r.seq,
                                 !.loading = FALSE]
  /\ callSucceeded(UrlOrganization)
  /\ organizationsOnly

\* fetchOrganizations, catch and finally
OrganizationsPageListFails(r, err) ==
  /\ r \in organizationsPage.listRequests
  /\ organizationsPage' =
       [organizationsPage EXCEPT
          !.listRequests = @ \ {r},
          !.error = <<"Failed to load organizations: ">> \o err.message,
          !.loading = FALSE]
  /\ callFailed(UrlOrganization, err)
  /\ organizationsOnly

\* Organizations.handleDelete up to its await; the button is rendered in the
\* rows of the list when the local server is selected
handleDelete(orgName, accepted) ==
  /\ organizationsPage.mounted
  /\ ~organizationsPage.loading
  /\ organizationsPage.selectedServer = "local"
  /\ \E i \in 1..Len(organizationsPage.organizations) :
       organizationsPage.organizations[i] = orgName
  /\ organizationsPage.deleting = <<>>
  /\ listBudget(organizationsPage) > 0
  /\ IF ~accepted
       THEN /\ organizationsPage' = [organizationsPage EXCEPT !.dialog = "declined"]
            /\ componentOnly
       ELSE /\ organizationsPage' =
                 IF pageCall(UrlOrganizationItem(orgName)).sent
                   THEN [organizationsPage EXCEPT
                           !.dialog = "accepted", !.error = Null,
                           !.success = Null, !.deleting = <<orgName>>]
                   ELSE [organizationsPage EXCEPT
                           !.dialog = "accepted", !.success = Null,
                           !.error = <<"Failed to delete organization: ">>
                                       \o AuthRequiredError.message]
            /\ callIssued(UrlOrganizationItem(orgName))
  /\ organizationsOnly

\* handleDelete after its await: setSuccess, fetchOrganizations()
OrganizationDeleteSucceeds ==
  /\ organizationsPage.deleting # <<>>
  /\ organizationsPage' =
       fetchOrganizationsStart(
         [organizationsPage EXCEPT
            !.deleting = <<>>,
            !.success = <<"Organization deleted successfully!">>],
         organizationsPage.selectedServer)
  /\ callSucceededThen(UrlOrganizationItem(organizationsPage.deleting[1]),
                       UrlOrganization)
  /\ organizationsOnly

\* handleDelete, catch
OrganizationDeleteFails(err) ==
  /\ organizationsPage.deleting # <<>>
  /\ organizationsPage' =
       [organizationsPage EXCEPT
          !.deleting = <<>>,
          !.error = <<"Failed to delete organization: ">> \o err.message]
  /\ callFailed(UrlOrganizationItem(organizationsPage.deleting[1]), err)
  /\ organizationsOnly

\* ---- Services ----
\* useState initial values of Services; pending counts the requests in
\* flight, dialog is the last answer to window.confirm
ServicesUnmounted ==
  [mounted |-> FALSE, services |-> <<>>, loading |-> FALSE, error |-> Null,
   success |-> Null, showCreateForm |-> FALSE,
   pending |-> [search |-> 0, delete |-> 0],
   dialog |-> "none"]

servicesOnly ==
  UNCHANGED <<pageVars, urlResources, organizationsPage, kafkaTopics, s3Resources>>

\* fetchServices up to its await
fetchServicesStart(st) ==
  IF pageCall(UrlSearch).sent
    THEN [st EXCEPT !.loading = TRUE, !.error = Null, !.pending.search = @ + 1]
    ELSE [st EXCEPT !.loading = FALSE,
                    !.error = <<"Failed to load services: ">>
                                \o AuthRequiredError.message]

\* useEffect(() => { fetchServices(); }, [fetchServices])
ServicesMount ==
  /\ View = "children"
  /\ page = "services"
  /\ ~services.mounted
  /\ services' = fetchServicesStart([services EXCEPT !.mounted = TRUE])
  /\ callIssued(UrlSearch)
  /\ servicesOnly

\* the Refresh button, disabled while loading
ServicesRefresh ==
  /\ services.mounted
  /\ ~services.loading
  /\ services.pending.search < MaxPageRequests
  /\ services' = fetchServicesStart(services)
  /\ callIssued(UrlSearch)
  /\ servicesOnly

\* fetchServices after its await: filter, setServices, finally
ServicesSearchSucceeds(data) ==
  /\ services.pending.search > 0
  /\ services' =
       [services EXCEPT !.pending.search = @ - 1,
                   !.services = SelectSeq(data, isService),
                   !.loading = FALSE]
  /\ callSucceeded(UrlSearch)
  /\ servicesOnly

\* fetchServices, catch and finally
ServicesSearchFails(err) ==
  /\ services.pending.search > 0
  /\ services' =
       [services EXCEPT
          !.pending.search = @ - 1,
          !.error = <<"Failed to load services: ">> \o err.message,
          !.loading = FALSE]
  /\ callFailed(UrlSearch, err)
  /\ servicesOnly

\* the button that opens and closes the form of Services
ToggleServicesCreateForm ==
  /\ services.mounted
  /\ services' = [services EXCEPT !.showCreateForm = ~@]
  /\ componentOnly
  /\ servicesOnly

\* the message that the catch block of Services.handleDeleteService shows
deleteServiceErrorMessage(err) ==
  <<"Failed to delete service: ">> \o
    (IF err.status = 404
       THEN <<"Service not found. It may have been already deleted.">>
     ELSE IF err.status = 405 THEN <<"Service deletion method not allowed.">>
     ELSE IF err.status = 401
       THEN <<"Authentication required. Please login again.">>
     ELSE IF err.status = 403
       THEN <<"You do not have permission to delete this service.">>
     ELSE err.message)

\* a handleDeleteService that sends the request whatever the dialog returned
handleDeleteServiceUnconfirmed(accepted) ==
  /\ services.mounted
  /\ ~(services.loading /\ ~services.showCreateForm)
  /\ services.services # <<>>
  /\ services.pending.delete < MaxPageRequests
  /\ services' =
       IF pageCall(UrlResource).sent
         THEN [services EXCEPT
                 !.dialog = IF accepted THEN "accepted" ELSE "declined",
                 !.error = Null, !.success = Null, !.pending.delete = @ + 1]
         ELSE [services EXCEPT
                 !.dialog = IF accepted THEN "accepted" ELSE "declined",
                 !.success = Null,
                 !.error = deleteServiceErrorMessage(AuthRequiredError)]
  /\ callIssued(UrlResource)
  /\ servicesOnly

\* Services.handleDeleteService up to its await; the rows and their Delete
\* buttons are rendered unless loading && !showCreateForm
handleDeleteService(accepted) ==
  /\ services.mounted
  /\ ~(services.loading /\ ~services.showCreateForm)
  /\ services.services # <<>>
  /\ IF ~accepted
       THEN /\ services' = [services EXCEPT !.dialog = "declined"]
            /\ componentOnly
       ELSE /\ services.pending.delete < MaxPageRequests
            /\ services' =
                 IF pageCall(UrlResource).sent
                   THEN [services EXCEPT
                           !.dialog = "accepted", !.error = Null,
                           !.success = Null, !.pending.delete = @ + 1]
                   ELSE [services EXCEPT
                           !.dialog = "accepted", !.success = Null,
                           !.error = deleteServiceErrorMessage(AuthRequiredError)]
            /\ callIssued(UrlResource)
  /\ servicesOnly

\* Services.handleDeleteService after its await: setSuccess, fetchServices()
ServicesDeleteSucceeds ==
  /\ services.pending.delete > 0
  /\ services.pending.search < MaxPageRequests
  /\ services' =
       fetchServicesStart(
         [services EXCEPT
            !.pending.delete = @ - 1,
            !.success = <<"Service deleted successfully!">>])
  /\ callSucceededThen(UrlResource, UrlSearch)
  /\ servicesOnly

\* Services.handleDeleteService, catch
ServicesDeleteFails(err) ==
  /\ services.pending.delete > 0
  /\ services' =
       [services EXCEPT
          !.pending.delete = @ - 1,
          !.error = deleteServiceErrorMessage(err)]
  /\ callFailed(UrlResource, err)
  /\ servicesOnly

\* ---- KafkaTopics ----
\* useState initial values of KafkaTopics; pending counts the requests in
\* flight, dialog is the last answer to window.confirm
KafkaTopicsUnmounted ==
  [mounted |-> FALSE, kafkaTopics |-> <<>>, loading |-> FALSE, error |-> Null,
   success |-> Null, showCreateForm |-> FALSE,
   pending |-> [organizations |-> 0, search |-> 0, delete |-> 0],
   dialog |-> "none"]

kafkaTopicsOnly ==
  UNCHANGED <<pageVars, urlResources, organizationsPage, services, s3Resources>>

\* fetchKafkaTopics up to its await
fetchKafkaTopicsStart(st) ==
  IF pageCall(UrlSearch).sent
    THEN [st EXCEPT !.loading = TRUE, !.error = Null, !.pending.search = @ + 1]
    ELSE [st EXCEPT !.loading = FALSE,
                    !.error = <<"Failed to load Kafka topics: ">>
                                \o AuthRequiredError.message]

\* useEffect(() => { fetchOrganizations(); fetchKafkaTopics(); }, ...)
KafkaMount ==
  /\ View = "children"
  /\ page = "kafka-topics"
  /\ ~kafkaTopics.mounted
  /\ kafkaTopics' =
       fetchKafkaTopicsStart(
         [kafkaTopics EXCEPT
            !.mounted = TRUE,
            !.pending.organizations =
               IF pageCall(UrlOrganization).sent THEN 1 ELSE 0])
  /\ reloadPending' = (reloadPending \/ pageCall(UrlOrganization).reload
                                     \/ pageCall(UrlSearch).reload)
  /\ UNCHANGED <<otherGateVars, localStorage, cmpVars, toolVars, page>>
  /\ kafkaTopicsOnly

\* KafkaTopics.fetchOrganizations after its await
KafkaOrganizationsSucceeds ==
  /\ kafkaTopics.pending.organizations > 0
  /\ kafkaTopics' = [kafkaTopics EXCEPT !.pending.organizations = @ - 1]
  /\ callSucceeded(UrlOrganization)
  /\ kafkaTopicsOnly

\* KafkaTopics.fetchOrganizations, catch: console.error only
KafkaOrganizationsFails(err) ==
  /\ kafkaTopics.pending.organizations > 0
  /\ kafkaTopics' = [kafkaTopics EXCEPT !.pending.organizations = @ - 1]
  /\ callFailed(UrlOrganization, err)
  /\ kafkaTopicsOnly

\* the Refresh button, disabled while loading
KafkaRefresh ==
  /\ kafkaTopics.mounted
  /\ ~kafkaTopics.loading
  /\ kafkaTopics.pending.search < MaxPageRequests
  /\ kafkaTopics' = fetchKafkaTopicsStart(kafkaTopics)
  /\ callIssued(UrlSearch)
  /\ kafkaTopicsOnly

\* fetchKafkaTopics after its await: filter, setKafkaTopics, finally
KafkaSearchSucceeds(data) ==
  /\ kafkaTopics.pending.search > 0
  /\ kafkaTopics' =
       [kafkaTopics EXCEPT !.pending.search = @ - 1,
                   !.kafkaTopics = SelectSeq(data, isKafkaTopic),
                   !.loading = FALSE]
  /\ callSucceeded(UrlSearch)
  /\ kafkaTopicsOnly

\* fetchKafkaTopics, catch and finally
KafkaSearchFails(err) ==
  /\ kafkaTopics.pending.search > 0
  /\ kafkaTopics' =
       [kafkaTopics EXCEPT
          !.pending.search = @ - 1,
          !.error = <<"Failed to load Kafka topics: ">> \o err.message,
          !.loading = FALSE]
  /\ callFailed(UrlSearch, err)
  /\ kafkaTopicsOnly

\* the button that opens and closes the form of KafkaTopics
ToggleKafkaCreateForm ==
  /\ kafkaTopics.mounted
  /\ kafkaTopics' = [kafkaTopics EXCEPT !.showCreateForm = ~@]
  /\ componentOnly
  /\ kafkaTopicsOnly

\* the message that the catch block of KafkaTopics.handleDeleteTopic shows
deleteTopicErrorMessage(err) ==
  <<"Failed to delete Kafka topic: ">> \o
    (IF err.status = 404
       THEN <<"Topic not found. It may have been already deleted.">>
     ELSE IF err.status = 405 THEN <<"Topic deletion method not allowed.">>
     ELSE IF err.status = 401
       THEN <<"Authentication required. Please login again.">>
     ELSE IF err.status = 403
       THEN <<"You do not have permission to delete this topic.">>
     ELSE err.message)

\* KafkaTopics.handleDeleteTopic up to its await; the rows and their Delete buttons are
\* rendered unless loading && !showCreateForm
handleDeleteTopic(accepted) ==
  /\ kafkaTopics.mounted
  /\ ~(kafkaTopics.loading /\ ~kafkaTopics.showCreateForm)
  /\ kafkaTopics.kafkaTopics # <<>>
  /\ IF ~accepted
       THEN /\ kafkaTopics' = [kafkaTopics EXCEPT !.dialog = "declined"]
            /\ componentOnly
       ELSE /\ kafkaTopics.pending.delete < MaxPageRequests
            /\ kafkaTopics' =
                 IF pageCall(UrlResource).sent
                   THEN [kafkaTopics EXCEPT
                           !.dialog = "accepted", !.error = Null,
                           !.success = Null, !.pending.delete = @ + 1]
                   ELSE [kafkaTopics EXCEPT
                           !.dialog = "accepted", !.success = Null,
                           !.error = deleteTopicErrorMessage(AuthRequiredError)]
            /\ callIssued(UrlResource)
  /\ kafkaTopicsOnly

\* KafkaTopics.handleDeleteTopic after its await: setSuccess, fetchKafkaTopics()
KafkaDeleteSucceeds ==
  /\ kafkaTopics.pending.delete > 0
  /\ kafkaTopics.pending.search < MaxPageRequests
  /\ kafkaTopics' =
       fetchKafkaTopicsStart(
         [kafkaTopics EXCEPT
            !.pending.delete = @ - 1,
            !.success = <<"Kafka topic deleted successfully!">>])
  /\ callSucceededThen(UrlResource, UrlSearch)
  /\ kafkaTopicsOnly

\* KafkaTopics.handleDeleteTopic, catch
KafkaDeleteFails(err) ==
  /\ kafkaTopics.pending.delete > 0
  /\ kafkaTopics' =
       [kafkaTopics EXCEPT
          !.pending.delete = @ - 1,
          !.error = deleteTopicErrorMessage(err)]
  /\ callFailed(UrlResource, err)
  /\ kafkaTopicsOnly

\* ---- S3Resources ----
\* useState initial values of S3Resources; pending counts the requests in
\* flight, dialog is the last answer to window.confirm
S3ResourcesUnmounted ==
  [mounted |-> FALSE, s3Resources |-> <<>>, loading |-> FALSE, error |-> Null,
   success |-> Null, showCreateForm |-> FALSE,
   pending |-> [organizations |-> 0, search |-> 0, delete |-> 0],
   dialog |-> "none"]

s3ResourcesOnly ==
  UNCHANGED <<pageVars, urlResources, organizationsPage, services, kafkaTopics>>

\* fetchS3Resources up to its await
fetchS3ResourcesStart(st) ==
  IF pageCall(UrlSearch).sent
    THEN [st EXCEPT !.loading = TRUE, !.error = Null, !.pending.search = @ + 1]
    ELSE [st EXCEPT !.loading = FALSE,
                    !.error = <<"Failed to load S3 resources: ">>
                                \o AuthRequiredError.message]

\* useEffect(() => { fetchOrganizations(); fetchS3Resources(); }, ...)
S3Mount ==
  /\ View = "children"
  /\ page = "s3-resources"
  /\ ~s3Resources.mounted
  /\ s3Resources' =
       fetchS3ResourcesStart(
         [s3Resources EXCEPT
            !.mounted = TRUE,
            !.pending.organizations =
               IF pageCall(UrlOrganization).sent THEN 1 ELSE 0])
  /\ reloadPending' = (reloadPending \/ pageCall(UrlOrganization).reload
                                     \/ pageCall(UrlSearch).reload)
  /\ UNCHANGED <<otherGateVars, localStorage, cmpVars, toolVars, page>>
  /\ s3ResourcesOnly

\* S3Resources.fetchOrganizations after its await
S3OrganizationsSucceeds ==
  /\ s3Resources.pending.organizations > 0
  /\ s3Resources' = [s3Resources EXCEPT !.pending.organizations = @ - 1]
  /\ callSucceeded(UrlOrganization)
  /\ s3ResourcesOnly

\* S3Resources.fetchOrganizations, catch: console.error only
S3OrganizationsFails(err) ==
  /\ s3Resources.pending.organizations > 0
  /\ s3Resources' = [s3Resources EXCEPT !.pending.organizations = @ - 1]
  /\ callFailed(UrlOrganization, err)
  /\ s3ResourcesOnly

\* the Refresh button, disabled while loading
S3Refresh ==
  /\ s3Resources.mounted
  /\ ~s3Resources.loading
  /\ s3Resources.pending.search < MaxPageRequests
  /\ s3Resources' = fetchS3ResourcesStart(s3Resources)
  /\ callIssued(UrlSearch)
  /\ s3ResourcesOnly

\* fetchS3Resources after its await: filter, setS3Resources, finally
S3SearchSucceeds(data) ==
  /\ s3Resources.pending.search > 0
  /\ s3Resources' =
       [s3Resources EXCEPT !.pending.search = @ - 1,
                   !.s3Resources = SelectSeq(data, isS3Resource),
                   !.loading = FALSE]
  /\ callSucceeded(UrlSearch)
  /\ s3ResourcesOnly

\* fetchS3Resources, catch and finally
S3SearchFails(err) ==
  /\ s3Resources.pending.search > 0
  /\ s3Resources' =
       [s3Resources EXCEPT
          !.pending.search = @ - 1,
          !.error = <<"Failed to load S3 resources: ">> \o err.message,
          !.loading = FALSE]
  /\ callFailed(UrlSearch, err)
  /\ s3ResourcesOnly

\* the button that opens and closes the form of S3Resources
ToggleS3CreateForm ==
  /\ s3Resources.mounted
  /\ s3Resources' = [s3Resources EXCEPT !.showCreateForm = ~@]
  /\ componentOnly
  /\ s3ResourcesOnly

\* the message that the catch block of S3Resources.handleDeleteResource shows
deleteS3ResourceErrorMessage(err) ==
  <<"Failed to delete S3 resource: ">> \o
    (IF err.status = 404
       THEN <<"Resource not found. It may have been already deleted.">>
     ELSE IF err.status = 405 THEN <<"Resource deletion method not allowed.">>
     ELSE IF err.status = 401
       THEN <<"Authentication required. Please login again.">>
     ELSE IF err.status = 403
       THEN <<"You do not have permission to delete this resource.">>
     ELSE err.message)

\* S3Resources.handleDeleteResource up to its await; the rows and their Delete buttons are
\* rendered unless loading && !showCreateForm
s3HandleDeleteResource(accepted) ==
  /\ s3Resources.mounted
  /\ ~(s3Resources.loading /\ ~s3Resources.showCreateForm)
  /\ s3Resources.s3Resources # <<>>
  /\ IF ~accepted
       THEN /\ s3Resources' = [s3Resources EXCEPT !.dialog = "declined"]
            /\ componentOnly
       ELSE /\ s3Resources.pending.delete < MaxPageRequests
            /\ s3Resources' =
                 IF pageCall(UrlResource).sent
                   THEN [s3Resources EXCEPT
                           !.dialog = "accepted", !.error = Null,
                           !.success = Null, !.pending.delete = @ + 1]
                   ELSE [s3Resources EXCEPT
                           !.dialog = "accepted", !.success = Null,
                           !.error = deleteS3ResourceErrorMessage(AuthRequiredError)]
            /\ callIssued(UrlResource)
  /\ s3ResourcesOnly

\* S3Resources.handleDeleteResource after its await: setSuccess, fetchS3Resources()
S3DeleteSucceeds ==
  /\ s3Resources.pending.delete > 0
  /\ s3Resources.pending.search < MaxPageRequests
  /\ s3Resources' =
       fetchS3ResourcesStart(
         [s3Resources EXCEPT
            !.pending.delete = @ - 1,
            !.success = <<"S3 resource deleted successfully!">>])
  /\ callSucceededThen(UrlResource, UrlSearch)
  /\ s3ResourcesOnly

\* S3Resources.handleDeleteResource, catch
S3DeleteFails(err) ==
  /\ s3Resources.pending.delete > 0
  /\ s3Resources' =
       [s3Resources EXCEPT
          !.pending.delete = @ - 1,
          !.error = deleteS3ResourceErrorMessage(err)]
  /\ callFailed(UrlResource, err)
  /\ s3ResourcesOnly

NoContainer == [built |-> FALSE]

\* the document is replaced: every component state is re-created, timers
\* and in-flight requests of the old document are gone, localStorage stays
Remount ==
  /\ isAuthenticated' = FALSE
  /\ loading' = TRUE
  /\ error' = Null
  /\ token' = <<>>
  /\ validatingToken' = FALSE
  /\ apiStatus' = InitialApiStatus
  /\ probe' = "idle"
  /\ timer' = "idle"
  /\ raceSettled' = FALSE
  /\ authEffect' = "pending"
  /\ validation' = NoValidation
  /\ requests' = {}
  /\ reloadPending' = FALSE
  /\ lastResponse' = NoResponse
  /\ lastValidation' = NoValidationResult
  /\ lastRequest' = NoRequest
  /\ dashboard' = DashboardUnmounted
  /\ datasetManagement' = DatasetManagementUnmounted
  /\ authStatus' = AuthStatusUnmounted
  /\ storageEvents' = 0
  /\ urlResources' = UrlResourcesUnmounted
  /\ organizationsPage' = OrganizationsUnmounted
  /\ services' = ServicesUnmounted
  /\ kafkaTopics' = KafkaTopicsUnmounted
  /\ s3Resources' = S3ResourcesUnmounted
  /\ UNCHANGED <<config, localStorage, confirmed, cmpVars, toolVars, page>>

\* window.location.reload() takes effect
PageReload ==
  /\ reloadPending
  /\ Remount

\* the user reloads the page in the browser
UserReload ==
  /\ ~reloadPending
  /\ probe # "idle" \/ authEffect = "done"
  /\ Remount

Next ==
  \/ checkApiVersion
  \/ \E r \in requests, data \in ProbeData : ProbeSucceeds(r, data)
  \/ \E r \in requests, err \in RequestErrors : ProbeFails(r, err)
  \/ TimerFires
  \/ checkExistingAuth
  \/ ValidationSucceeds
  \/ \E err \in RequestErrors : ValidationFails(err)
  \/ \E input \in FormInputs : SetToken(input)
  \/ handleTokenSubmit
  \/ \E url \in PageUrls : PageRequest(url)
  \/ \E r \in requests : PageRequestSucceeds(r)
  \/ \E r \in requests, err \in RequestErrors : PageRequestFails(r, err)
  \/ handleLogout
  \/ PageReload
  \/ UserReload

CompareIdle ==
  /\ version1 = <<>>
  /\ version2 = <<>>
  /\ result = <<>>

\* no page has been mounted
PagesUnmounted ==
  /\ dashboard = DashboardUnmounted
  /\ datasetManagement = DatasetManagementUnmounted
  /\ authStatus = AuthStatusUnmounted
  /\ storageEvents = 0
  /\ urlResources = UrlResourcesUnmounted
  /\ organizationsPage = OrganizationsUnmounted
  /\ services = ServicesUnmounted
  /\ kafkaTopics = KafkaTopicsUnmounted
  /\ s3Resources = S3ResourcesUnmounted

\* no container is being started and no dataset is being classified
ToolsIdle ==
  /\ container = NoContainer
  /\ classified = NotClassified

Init == GateInit /\ CompareIdle /\ page = "dashboard" /\ PagesUnmounted /\ ToolsIdle

Spec == Init /\ [][Next]_vars

\* the deployment of the enhanced gate (with the client that exports authAPI)
InitEnhanced == Init /\ gateVariant = "enhanced"

SpecEnhanced == InitEnhanced /\ [][Next]_vars

\* one page load observed to its end: the user does not reload the page;
\* React runs the mount effect and the browser fires an armed timer
LiveNext ==
  \/ checkApiVersion
  \/ \E r \in requests, data \in ProbeData : ProbeSucceeds(r, data)
  \/ \E r \in requests, err \in RequestErrors : ProbeFails(r, err)
  \/ TimerFires
  \/ checkExistingAuth
  \/ ValidationSucceeds
  \/ \E err \in RequestErrors : ValidationFails(err)
  \/ \E input \in FormInputs : SetToken(input)
  \/ handleTokenSubmit
  \/ \E url \in PageUrls : PageRequest(url)
  \/ \E r \in requests : PageRequestSucceeds(r)
  \/ \E r \in requests, err \in RequestErrors : PageRequestFails(r, err)
  \/ handleLogout
  \/ PageReload

FairSpecEnhanced ==
  /\ InitEnhanced
  /\ [][LiveNext]_vars
  /\ WF_vars(checkApiVersion)
  /\ WF_vars(TimerFires)

\* the enhanced gate with the Dashboard as the page it renders
DashboardNext ==
  \/ checkApiVersion
  \/ \E r \in requests, data \in ProbeData : ProbeSucceeds(r, data)
  \/ \E r \in requests, err \in RequestErrors : ProbeFails(r, err)
  \/ TimerFires
  \/ checkExistingAuth
  \/ ValidationSucceeds
  \/ \E err \in RequestErrors : ValidationFails(err)
  \/ \E input \in FormInputs : SetToken(input)
  \/ handleTokenSubmit
  \/ fetchDashboardData
  \/ \E call \in DashboardCalls :
       \E data \in DashboardData(call, dashboard.results[call].auth) :
         DashboardCallSucceeds(call, data)
  \/ \E call \in DashboardCalls, err \in RequestErrors : DashboardCallFails(call, err)
  \/ handleLogout
  \/ PageReload

SpecDashboard == InitEnhanced /\ [][DashboardNext]_vars

\* the state of the enhanced gate after a stored token was validated
Authenticated ==
  /\ gateVariant = "enhanced"
  /\ clientVariant = "v2"
  /\ localStorage = TokenA
  /\ confirmed = {TokenA}
  /\ isAuthenticated = TRUE
  /\ loading = FALSE
  /\ error = Null
  /\ token = <<>>
  /\ validatingToken = FALSE
  /\ apiStatus = probeSucceeded([version |-> MINIMUM_API_VERSION, api_version |-> Null])
  /\ probe = "settled"
  /\ timer = "fired"
  /\ raceSettled = TRUE
  /\ authEffect = "done"
  /\ validation = NoValidation
  /\ requests = {}
  /\ reloadPending = FALSE
  /\ lastResponse = NoResponse
  /\ lastRequest = requestRecord(UrlStatus, TokenA,
                                  requestInterceptorV2(UrlStatus, TokenA))
  /\ lastValidation = NoValidationResult

\* the pages behind the gate, observed from the authenticated state until
\* the document is replaced
PagesInit ==
  /\ Authenticated
  /\ CompareIdle
  /\ page \in Pages
  /\ PagesUnmounted
  /\ ToolsIdle

PagesNext ==
  \/ fetchDashboardData
  \/ \E call \in DashboardCalls :
       \E data \in DashboardData(call, dashboard.results[call].auth) :
         DashboardCallSucceeds(call, data)
  \/ \E call \in DashboardCalls, err \in RequestErrors : DashboardCallFails(call, err)
  \/ DatasetManagementMount
  \/ OrganizationsListSucceeds
  \/ \E err \in RequestErrors : OrganizationsListFails(err)
  \/ \E data \in SearchData : SearchSucceeds(data)
  \/ \E err \in RequestErrors : SearchFails(err)
  \/ ToggleCreateForm
  \/ \E text \in ExtrasTexts : SetExtrasJson(text)
  \/ \E text \in ResourcesTexts : SetResourcesJson(text)
  \/ handleCreate
  \/ CreateSucceeds
  \/ \E err \in RequestErrors : CreateFails(err)

SpecPages == PagesInit /\ [][PagesNext]_vars

\* the Dataset Management page with its create and delete operations, the
\* form left with the texts it opens with
DatasetsInit ==
  /\ Authenticated
  /\ CompareIdle
  /\ page = "datasets"
  /\ PagesUnmounted
  /\ ToolsIdle

DatasetsNext ==
  \/ DatasetManagementMount
  \/ OrganizationsListSucceeds
  \/ \E err \in RequestErrors : OrganizationsListFails(err)
  \/ \E data \in SearchData : SearchSucceeds(data)
  \/ \E err \in RequestErrors : SearchFails(err)
  \/ ToggleCreateForm
  \/ handleCreate
  \/ CreateSucceeds
  \/ \E err \in RequestErrors : CreateFails(err)
  \/ \E accepted \in BOOLEAN : handleDeleteDataset(accepted)
  \/ DeleteDatasetSucceeds
  \/ \E err \in RequestErrors : DeleteDatasetFails(err)

SpecDatasets == DatasetsInit /\ [][DatasetsNext]_vars

\* the Organizations page inside the gate of an authenticated session
OrganizationsInit ==
  /\ Authenticated
  /\ CompareIdle
  /\ page = "organizations"
  /\ PagesUnmounted
  /\ ToolsIdle

OrganizationsNext ==
  \/ OrganizationsMount
  \/ \E server \in OrganizationServers : SetSelectedServer(server)
  \/ handleSearch
  \/ \E r \in organizationsPage.listRequests :
       \E data \in OrganizationLists(r.server) :
         OrganizationsPageListSucceeds(r, data)
  \/ \E r \in organizationsPage.listRequests, err \in RequestErrors :
       OrganizationsPageListFails(r, err)
  \/ \E orgName \in {"ndp", "lab"}, accepted \in BOOLEAN :
       handleDelete(orgName, accepted)
  \/ OrganizationDeleteSucceeds
  \/ \E err \in RequestErrors : OrganizationDeleteFails(err)

SpecOrganizations == OrganizationsInit /\ [][OrganizationsNext]_vars

\* the URL Resources page inside the gate of an authenticated session
UrlResourcesInit ==
  /\ Authenticated
  /\ CompareIdle
  /\ page = "url-resources"
  /\ PagesUnmounted
  /\ ToolsIdle

UrlResourcesNext ==
  \/ UrlResourcesMount
  \/ UrlOrganizationsSucceeds
  \/ \E err \in RequestErrors : UrlOrganizationsFails(err)
  \/ \E data \in SearchData : UrlSearchSucceeds(data)
  \/ \E err \in RequestErrors : UrlSearchFails(err)
  \/ ToggleUrlCreateForm
  \/ \E text \in ObjectTexts : SetUrlExtrasJson(text)
  \/ \E text \in ObjectTexts : SetMappingJson(text)
  \/ \E text \in ObjectTexts : SetProcessingJson(text)
  \/ startEditing(UrlResourceDataset)
  \/ urlHandleCreate
  \/ urlHandleUpdate
  \/ \E kind \in {"create", "update"} : UrlSubmitSucceeds(kind)
  \/ \E kind \in {"create", "update"}, err \in RequestErrors :
       UrlSubmitFails(kind, err)

SpecUrlResources == UrlResourcesInit /\ [][UrlResourcesNext]_vars

\* the pages that list items with a Delete button, one of them routed
DeletePages ==
  {"datasets", "organizations", "url-resources", "services", "kafka-topics",
   "s3-resources"}

DeletesInit ==
  /\ Authenticated
  /\ CompareIdle
  /\ page \in DeletePages
  /\ PagesUnmounted
  /\ ToolsIdle

\* the list and the Delete button of each page
DeletesNext ==
  \/ DatasetManagementMount
  \/ OrganizationsListSucceeds
  \/ \E err \in RequestErrors : OrganizationsListFails(err)
  \/ \E data \in SearchData : SearchSucceeds(data)
  \/ \E err \in RequestErrors : SearchFails(err)
  \/ ToggleCreateForm
  \/ \E accepted \in BOOLEAN : handleDeleteDataset(accepted)
  \/ DeleteDatasetSucceeds
  \/ \E err \in RequestErrors : DeleteDatasetFails(err)
  \/ OrganizationsNext
  \/ UrlResourcesMount
  \/ UrlOrganizationsSucceeds
  \/ \E err \in RequestErrors : UrlOrganizationsFails(err)
  \/ \E data \in SearchData : UrlSearchSucceeds(data)
  \/ \E err \in RequestErrors : UrlSearchFails(err)
  \/ ToggleUrlCreateForm
  \/ \E accepted \in BOOLEAN : handleDeleteResource(accepted)
  \/ UrlDeleteSucceeds
  \/ \E err \in RequestErrors : UrlDeleteFails(err)
  \/ ServicesMount
  \/ ServicesRefresh
  \/ \E data \in SearchData : ServicesSearchSucceeds(data)
  \/ \E err \in RequestErrors : ServicesSearchFails(err)
  \/ ToggleServicesCreateForm
  \/ \E accepted \in BOOLEAN : handleDeleteService(accepted)
  \/ ServicesDeleteSucceeds
  \/ \E err \in RequestErrors : ServicesDeleteFails(err)
  \/ KafkaMount
  \/ KafkaOrganizationsSucceeds
  \/ \E err \in RequestErrors : KafkaOrganizationsFails(err)
  \/ KafkaRefresh
  \/ \E data \in SearchData : KafkaSearchSucceeds(data)
  \/ \E err \in RequestErrors : KafkaSearchFails(err)
  \/ ToggleKafkaCreateForm
  \/ \E accepted \in BOOLEAN : handleDeleteTopic(accepted)
  \/ KafkaDeleteSucceeds
  \/ \E err \in RequestErrors : KafkaDeleteFails(err)
  \/ S3Mount
  \/ S3OrganizationsSucceeds
  \/ \E err \in RequestErrors : S3OrganizationsFails(err)
  \/ S3Refresh
  \/ \E data \in SearchData : S3SearchSucceeds(data)
  \/ \E err \in RequestErrors : S3SearchFails(err)
  \/ ToggleS3CreateForm
  \/ \E accepted \in BOOLEAN : s3HandleDeleteResource(accepted)
  \/ S3DeleteSucceeds
  \/ \E err \in RequestErrors : S3DeleteFails(err)

SpecDeletes == DeletesInit /\ [][DeletesNext]_vars

\* a document that shows AuthStatus, with other tabs of the same origin
AuthStatusInit ==
  /\ gateVariant = "enhanced"
  /\ clientVariant = "v2"
  /\ localStorage \in {Null} \cup StoredTokens
  /\ confirmed = {}
  /\ Mounted
  /\ CompareIdle
  /\ page = "dashboard"
  /\ PagesUnmounted
  /\ ToolsIdle

AuthStatusNext ==
  \/ AuthStatusMount
  \/ PollTick
  \/ handleStorageChange
  \/ \E t \in StoredTokens : OtherTabStores(t)
  \/ OtherTabRemoves
  \/ \E manualToken \in FormInputs \cup {LongToken} : handleTokenLogin(manualToken)
  \/ AuthStatusLogout
  \/ PageReload

\* React runs the mount effects, the interval keeps firing, queued events
\* are delivered and a requested reload takes effect
FairSpecAuthStatus ==
  /\ AuthStatusInit
  /\ [][AuthStatusNext]_vars
  /\ WF_vars(AuthStatusMount)
  /\ WF_vars(PollTick)
  /\ WF_vars(handleStorageChange)
  /\ WF_vars(PageReload)

\* as FairSpecEnhanced, and also: a requested reload takes effect, React
\* runs the token effect, and the validation request settles (tempClient has
\* timeout: 10000)
FairSpecSession ==
  /\ InitEnhanced
  /\ [][LiveNext]_vars
  /\ WF_vars(checkApiVersion)
  /\ WF_vars(TimerFires)
  /\ WF_vars(checkExistingAuth)
  /\ WF_vars(ValidationSucceeds \/ \E err \in RequestErrors : ValidationFails(err))
  /\ WF_vars(PageReload)

(* ----------------------------------------------------------------------- *)
(* Container entrypoint (docker-entrypoint.sh)                             *)
(* ----------------------------------------------------------------------- *)
\* DEFAULT_API_URL="http://localhost:8003"
DEFAULT_API_URL ==
  <<"h", "t", "t", "p", ":", "/", "/", "l", "o", "c", "a", "l", "h", "o",
    "s", "t", ":", "8", "0", "0", "3">>

\* the placeholder '__NDP_EP_API_URL__'
PLACEHOLDER ==
  <<"_", "_", "N", "D", "P", "_", "E", "P", "_", "A", "P", "I", "_", "U",
    "R", "L", "_", "_">>

ExampleApiUrl ==
  <<"h", "t", "t", "p", "s", ":", "/", "/", "a", "p", "i", ".", "e", "x",
    "a", "m", "p", "l", "e", ".", "c", "o", "m">>

PrefixedApiUrl ==
  <<"h", "t", "t", "p", ":", "/", "/", "l", "o", "c", "a", "l", "h", "o",
    "s", "t", ":", "8", "0", "0", "3", "/", "a", "p", "i">>

QueryApiUrl ==
  <<"h", "t", "t", "p", "s", ":", "/", "/", "g", "w", ".", "e", "x", "a",
    "m", "p", "l", "e", ".", "c", "o", "m", "/", "?", "a", "=", "1", "&",
    "b", "=", "2">>

BuildTimeUrl ==
  <<"h", "t", "t", "p", "s", ":", "/", "/", "b", "u", "i", "l", "d", ".",
    "e", "x", "a", "m", "p", "l", "e", ".", "c", "o", "m">>

\* values of NDP_EP_API in the container: unset (Null), empty, or a URL
EnvValues ==
  {Null, <<>>, DEFAULT_API_URL, ExampleApiUrl, PrefixedApiUrl, QueryApiUrl}

\* values of REACT_APP_API_BASE_URL at build time: the ARG default of the
\* Dockerfile, an empty override, another URL
BuildArgs == {DEFAULT_API_URL, <<>>, BuildTimeUrl}

\* the replacement text of sed's s command: & stands for the matched text
RECURSIVE sedReplacement(_, _)
sedReplacement(replacement, matched) ==
  IF replacement = <<>> THEN <<>>
  ELSE IF Head(replacement) = "&"
    THEN matched \o sedReplacement(Tail(replacement), matched)
  ELSE <<Head(replacement)>> \o sedReplacement(Tail(replacement), matched)

\* the leftmost match of the pattern at or after position from, 0 if none
nextMatch(text, pattern, from) ==
  LET matches == {i \in from..(Len(text) - Len(pattern) + 1) :
                    SubSeq(text, i, i + Len(pattern) - 1) = pattern}
  IN  IF matches = {} THEN 0
      ELSE CHOOSE i \in matches : \A j \in matches : i <= j

RECURSIVE sedFrom(_, _, _, _)
sedFrom(text, pattern, replacement, from) ==
  LET i == nextMatch(text, pattern, from)
  IN  IF i = 0 THEN SubSeq(text, from, Len(text))
      ELSE SubSeq(text, from, i - 1)
           \o sedReplacement(replacement, pattern)
           \o sedFrom(text, pattern, replacement, i + Len(pattern))

\* sed "s|pattern|replacement|g" on a text: every match, left to right,
\* without rescanning what was substituted
sed(text, pattern, replacement) == sedFrom(text, pattern, replacement, 1)

\* API_URL="${NDP_EP_API:-$DEFAULT_API_URL}"
API_URL(env) == IF env = Null \/ env = <<>> THEN DEFAULT_API_URL ELSE env

\* the string literals of the BASE_URL expression in the built bundle;
\* an unset build variable leaves an undefined operand, kept as <<>>
builtJs(buildArg) == <<buildArg, PLACEHOLDER, DEFAULT_API_URL>>

\* BASE_URL = a || b || c
BASE_URL(js) ==
  IF Truthy(js[1]) THEN js[1] ELSE IF Truthy(js[2]) THEN js[2] ELSE js[3]

\* the image as built, before the container first starts; config holds the
\* text of config.js, <<>> when the file does not exist
BuiltContainers ==
  [built : {TRUE}, env : EnvValues, js : {builtJs(b) : b \in BuildArgs},
   config : {<<>>, PLACEHOLDER}, runs : {0}]

\* one run of docker-entrypoint.sh (container start or restart)
entrypoint ==
  /\ container.built
  /\ container.runs < MaxRuns
  /\ LET url == API_URL(container.env)
         patched(text) == sed(sed(text, DEFAULT_API_URL, url), PLACEHOLDER, url)
     IN  container' =
           [container EXCEPT
              !.js = [i \in 1..Len(container.js) |-> patched(container.js[i])],
              !.config = sed(container.config, PLACEHOLDER, url),
              !.runs = @ + 1]
  /\ UNCHANGED <<gateVars, cmpVars, pageVars, morePageVars, classified>>

(* ----------------------------------------------------------------------- *)
(* Specification of the pure function: inputs drawn from bounded sets      *)
(* ----------------------------------------------------------------------- *)
VersionChars == {"1", "2", "9", ".", "x"}

RECURSIVE StringsUpTo(_, _)
StringsUpTo(chars, n) ==
  IF n = 0 THEN {<<>>}
  ELSE LET shorter == StringsUpTo(chars, n - 1)
       IN  shorter \cup {Append(s, c) : s \in shorter, c \in chars}

VersionStrings == StringsUpTo(VersionChars, MaxVersionLen)

\* no gate is mounted while the function is exercised on its own
GateIdle ==
  /\ gateVariant = "enhanced"
  /\ clientVariant = "v2"
  /\ localStorage = Null
  /\ confirmed = {}
  /\ Mounted

CompareInit ==
  /\ version1 \in VersionStrings
  /\ version2 \in VersionStrings
  /\ result = <<>>
  /\ GateIdle
  /\ page = "dashboard"
  /\ PagesUnmounted
  /\ ToolsIdle

\* result is the empty tuple before the call and <<r>> after it returned r
Compare ==
  /\ result = <<>>
  /\ result' = <<compareVersions(version1, version2)>>
  /\ UNCHANGED <<version1, version2, gateVars, pageVars, morePageVars, toolVars>>

CompareNext == Compare

SpecCompare == CompareInit /\ [][CompareNext]_vars

\* the container on its own: no page is open
EntrypointInit ==
  /\ container \in BuiltContainers
  /\ classified = NotClassified
  /\ GateIdle
  /\ CompareIdle
  /\ page = "dashboard"
  /\ PagesUnmounted

EntrypointNext == entrypoint

SpecEntrypoint == EntrypointInit /\ [][EntrypointNext]_vars

\* the page filters on their own, applied to the records of a search answer
FiltersInit ==
  /\ ToolsIdle
  /\ GateIdle
  /\ CompareIdle
  /\ page = "datasets"
  /\ PagesUnmounted

FiltersNext == \E dataset \in FilterInputs : applyFilters(dataset)

SpecFilters == FiltersInit /\ [][FiltersNext]_vars

(* ----------------------------------------------------------------------- *)
(* Properties                                                              *)
(* ----------------------------------------------------------------------- *)

\* C1: whenever the token form writes localStorage['authToken'], the value
\* written is a token the server has confirmed through /user/info; no token
\* whose validation failed or is unanswered is ever written.
C1_PersistedOnlyAfterConfirmation ==
  [][(localStorage' # localStorage /\ localStorage' # Null)
       => localStorage' \in confirmed']_vars

\* C2: right after the response interceptor has handled a 401 for a request
\* to a non-public path, localStorage holds no authToken.
C2_TokenClearedOn401 ==
  (lastResponse.url # Null /\ lastResponse.status = 401
     /\ ~isPublicEndpoint(lastResponse.url))
    => localStorage = Null

C2_Witness ==
  /\ lastResponse = [url |-> UrlOrganization, status |-> 401]
  /\ lastRequest.stored \in Tokens
  /\ localStorage = Null

\* C3: the routed pages are rendered only when the gate is authenticated
\* and neither check is running, the gate enters that state only through a
\* /user/info answer confirming the token, and the form stays until a
\* submitted token is confirmed (or the page is reloaded).
C3_ProtectedContentOnlyWhenAuthenticated ==
  [][/\ View' = "children" => (isAuthenticated' /\ ~loading' /\ ~Checking')
     /\ (View # "children" /\ View' = "children")
          => (/\ validation # NoValidation
              /\ validation.token \in confirmed'
              /\ validation.origin = IF View = "form" THEN "submit" ELSE "existing")
     /\ (View = "form" /\ View' = "loading") => probe' = "idle"]_vars

C3_Witness ==
  /\ View = "children"
  /\ localStorage \in confirmed
  /\ validation = NoValidation

\* C4: a request to a listed public status path carries no Authorization
\* header even when a token is stored; any other request sent while a token
\* is stored carries `Bearer <token>` with the token stored at send time.
C4_AuthorizationHeaderRule ==
  lastRequest.url # Null =>
    /\ isPublicEndpoint(lastRequest.url)
         => (lastRequest.sent /\ lastRequest.auth = NoHeader)
    /\ (~isPublicEndpoint(lastRequest.url) /\ Truthy(lastRequest.stored))
         => (lastRequest.sent /\ lastRequest.auth = Bearer(lastRequest.stored))

\* C5: every request to a private path that is in flight carries a bearer
\* token; a call to a private path made while no token is stored is
\* rejected with 'Authentication required', is not sent, and a page reload
\* is pending; validateToken always sends the token it was given.
C5_PrivateRequestsCarryToken ==
  /\ \A r \in requests :
       ~isPublicEndpoint(r.url) => (r.auth # NoHeader /\ r.auth = Bearer(r.stored))
  /\ (lastRequest.url # Null /\ ~isPublicEndpoint(lastRequest.url)
        /\ ~Truthy(lastRequest.stored))
       => (/\ ~lastRequest.sent
           /\ lastRequest.error = <<"Authentication required">>
           /\ reloadPending)
  /\ validation # NoValidation => Truthy(Trim(validation.token))

C5_Witness ==
  /\ lastRequest.url = UrlOrganization
  /\ lastRequest.stored = Null
  /\ ~lastRequest.sent
  /\ reloadPending

\* C6: at startup the gate becomes authenticated only through a /user/info
\* answer that confirms the stored token; when that validation fails the
\* token is removed, the form is shown and the error is the session-expired
\* message.
C6_StoredTokenValidatedAtStartup ==
  [][/\ (loading /\ ~isAuthenticated /\ isAuthenticated')
          => (validation.origin = "existing" /\ validation.token \in confirmed')
     /\ (validation.origin = "existing" /\ validation' = NoValidation
           /\ ~isAuthenticated' /\ ~loading')
          => (localStorage' = Null /\ error' = SessionExpired /\ View' = "form")]_vars

\* C7: while the status probe is unsettled (apiStatus.checking) the gate
\* shows the loading screen, has not validated or acted on the persisted
\* token, and is in neither terminal state.
C7_TokenCheckAfterProbe ==
  Checking =>
    /\ loading
    /\ ~isAuthenticated
    /\ validation = NoValidation
    /\ error = Null
    /\ View = "loading"

C7_Witness ==
  /\ Checking
  /\ probe = "pending"
  /\ authEffect = "done"
  /\ localStorage \in Tokens

TimedOutStatus ==
  [checking |-> FALSE, connected |-> FALSE, version |-> Null,
   compatible |-> FALSE,
   error |-> <<"API connection timeout - server may be down">>]

\* C8: when the timer fires while the status request is still unanswered,
\* apiStatus becomes the disconnected descriptor with the timeout message;
\* and (timer and mount effect being fair) a gate that is checking the API
\* eventually is not.
C8_ProbeTimesOut ==
  /\ [][(timer = "armed" /\ timer' = "fired" /\ probe = "pending")
          => apiStatus' = TimedOutStatus]_vars
  /\ (Checking ~> ~Checking)

C8_Witness ==
  /\ timer = "fired"
  /\ probe = "pending"
  /\ apiStatus = TimedOutStatus

\* the value of component i of a version string, 0 when it is missing
ComponentValue(v, i) ==
  IF i <= Len(Split(v, ".")) THEN DecimalValue(Split(v, ".")[i]) ELSE 0

NumericVersion(v) ==
  \A i \in 1..Len(Split(v, ".")) :
    \A j \in 1..Len(Split(v, ".")[i]) : Split(v, ".")[i][j] \in Digits

Positions(a, b) == 1..Max(Len(Split(a, ".")), Len(Split(b, ".")))

DifferAt(a, b, i) ==
  /\ ComponentValue(a, i) # ComponentValue(b, i)
  /\ \A j \in Positions(a, b) :
       j < i => ComponentValue(a, j) = ComponentValue(b, j)

\* C9: for versions whose components are numbers, compareVersions returns
\* 0 when no position differs (missing components counting as 0), and
\* otherwise -1 or 1 as the first differing position orders them; and
\* compareVersions('2', '1.9') = 1.
C9_ComponentwiseComparison ==
  /\ (result # <<>> /\ NumericVersion(version1) /\ NumericVersion(version2)) =>
       /\ result[1] = 0 <=>
            \A i \in Positions(version1, version2) :
              ComponentValue(version1, i) = ComponentValue(version2, i)
       /\ result[1] = -1 <=>
            \E i \in Positions(version1, version2) :
              /\ DifferAt(version1, version2, i)
              /\ ComponentValue(version1, i) < ComponentValue(version2, i)
       /\ result[1] = 1 <=>
            \E i \in Positions(version1, version2) :
              /\ DifferAt(version1, version2, i)
              /\ ComponentValue(version1, i) > ComponentValue(version2, i)
  /\ (result # <<>> /\ version1 = <<"2">> /\ version2 = <<"1", ".", "9">>)
       => result = <<1>>

C9_Witness ==
  /\ version1 = <<"2">>
  /\ version2 = <<"1", ".", "9">>
  /\ result = <<1>>

\* C10: for every pair of version strings, numeric or not, the result is
\* -1, 0 or 1, it is 0 when both arguments are the same string, and it is
\* the negation of the result with the arguments swapped.
C10_TotalReflexiveAntisymmetric ==
  result # <<>> =>
    /\ result[1] \in {-1, 0, 1}
    /\ version1 = version2 => result[1] = 0
    /\ result[1] = 0 - compareVersions(version2, version1)

C10_Witness ==
  /\ version1 = <<"x", ".", "2">>
  /\ version2 = <<".", "1">>
  /\ result = <<1>>

\* C11: after a private call returned 401 the token is cleared and a reload
\* is pending; the reload restarts the gate in its checking state with the
\* probe not yet issued; that run reaches the token form; and with no stored
\* token the protected content is entered only by the step in which the
\* server confirms a submitted token.
C11_Handled401 ==
  lastResponse.status = 401 /\ ~isPublicEndpoint(lastResponse.url)

C11_ReloadAfter401 ==
  /\ [](C11_Handled401 => reloadPending /\ localStorage = Null)
  /\ [](reloadPending => localStorage = Null)
  /\ [][reloadPending /\ ~reloadPending'
          => Checking' /\ probe' = "idle" /\ View' = "loading"
             /\ ~isAuthenticated' /\ localStorage' = Null]_vars
  /\ [][localStorage = Null /\ View # "children" /\ View' = "children"
          => /\ lastValidation'.origin = "submit"
             /\ lastValidation'.ok
             /\ lastValidation'.token \in confirmed'
             /\ localStorage' = lastValidation'.token]_vars
  /\ (C11_Handled401 ~> View = "form")

C11_Witness ==
  /\ C11_Handled401
  /\ reloadPending
  /\ View = "children"
  /\ localStorage = Null

\* C12: a step that handles a 403 answer to a private call (a page request
\* through apiClient, or the /user/info request of validateToken) leaves
\* localStorage['authToken'] as it was and requests no reload.
C12_Handled403 ==
  \/ lastResponse'.status = 403 /\ ~isPublicEndpoint(lastResponse'.url)
  \/ lastValidation'.origin # "none" /\ lastValidation'.err.status = 403

C12_TokenKeptOn403 ==
  [][C12_Handled403
       => localStorage' = localStorage /\ reloadPending' = reloadPending]_vars

\* C13: once the race between the status request and the timer has settled,
\* the later settlement of the request and the later firing of the timer
\* change nothing of the gate's state nor the stored token.
C13_LoserStep ==
  \/ timer = "armed" /\ timer' = "fired"
  \/ probe = "pending" /\ probe' = "settled"

C13_RaceLoserIgnored ==
  [][raceSettled /\ C13_LoserStep
       => UNCHANGED <<apiStatus, raceSettled, authEffect, isAuthenticated,
                      loading, error, token, validatingToken, validation,
                      localStorage, reloadPending>>]_vars

C13_Witness ==
  /\ raceSettled
  /\ probe = "settled"
  /\ timer = "fired"
  /\ apiStatus.connected
  /\ apiStatus.compatible

\* C14 as stated: when the startup probe failed or timed out and the token
\* form is shown, the user can still type a token while the form cannot be
\* submitted.
C14_ProbeFailed == hasProbe /\ ~apiStatus.checking /\ ~apiStatus.connected

C14_EntryAllowedSubmitDisabled ==
  C14_ProbeFailed /\ View = "form"
    => /\ \E input \in FormInputs : ENABLED SetToken(input)
       /\ ~ENABLED handleTokenSubmit

\* C14 amended: a failed or timed-out startup probe is non-fatal, the gate
\* reaches the token check and leaves the loading screen, but in the form
\* both the token textarea and the submit control are disabled: no token can
\* be typed, none is held in the form, and no validation is started from it.
C14_FailedProbeDisablesForm ==
  /\ [](C14_ProbeFailed /\ View = "form"
          => /\ \A input \in FormInputs : ~ENABLED SetToken(input)
             /\ ~ENABLED handleTokenSubmit)
  /\ [](C14_ProbeFailed
          => token = <<>> /\ ~validatingToken /\ validation.origin # "submit")
  /\ (C14_ProbeFailed ~> View # "loading")

C14_Witness ==
  /\ C14_ProbeFailed
  /\ View = "form"
  /\ authEffect = "done"
  /\ apiStatus.error = <<"Network connection failed">>

\* C15: a step that deletes a stored token is an explicit logout, the
\* handling of a 401 answer to a private call, or the handling of a
\* validation that the server answered with an authentication failure
\* (401 or 403); in particular a network error or timeout during validation
\* does not delete it.
C15_AuthenticationFailure ==
  \/ lastResponse'.status = 401 /\ ~isPublicEndpoint(lastResponse'.url)
  \/ /\ lastValidation'.origin # "none"
     /\ ~lastValidation'.ok
     /\ lastValidation'.err.status \in {401, 403}

C15_TokenDeletedOnlyByLogoutOrAuthFailure ==
  [][localStorage # Null /\ localStorage' = Null
       => handleLogout \/ C15_AuthenticationFailure]_vars

\* C17: within one page load a status request is sent only by the step that
\* leaves the not-yet-probed state, so at most once; after the probe failed
\* apiStatus does not change until the page is loaded again; the step that
\* handles a failed validation leaves no validation in flight, and a
\* validation is started only by a submit of the form or by the token check
\* of the page load.
C17_ProbeRequests(reqs) == {r \in reqs : r.purpose = "probe"}

C17_SameLoad == probe' # "idle"

C17_NoRetries ==
  /\ [][probe # "idle" /\ C17_SameLoad
          => C17_ProbeRequests(requests') \subseteq C17_ProbeRequests(requests)]_vars
  /\ [](Cardinality(C17_ProbeRequests(requests)) <= 1)
  /\ [][hasProbe /\ ~apiStatus.checking /\ ~apiStatus.connected /\ C17_SameLoad
          => apiStatus' = apiStatus]_vars
  /\ [](lastValidation.origin # "none" /\ ~lastValidation.ok
          => validation = NoValidation)
  /\ [][validation' # validation /\ validation' # NoValidation
          => \/ handleTokenSubmit /\ validation'.origin = "submit"
             \/ checkExistingAuth /\ validation'.origin = "existing"]_vars

C17_Witness ==
  /\ probe = "settled"
  /\ C17_ProbeRequests(requests) = {}
  /\ ~apiStatus.checking
  /\ ~apiStatus.connected
  /\ lastValidation.origin = "existing"
  /\ ~lastValidation.ok
  /\ validation = NoValidation

\* C19: the step in which the race is lost to a failure sets apiStatus to
\* checking = FALSE, connected = FALSE, no version, not compatible, and the
\* error message of the cause: the race timer -> timeout, HTTP 401 ->
\* authentication required, HTTP status >= 500 -> server error, network
\* error -> network connection failed, anything else -> unable to connect.
C19_Classified(err) ==
  CASE err = RaceTimeoutError -> <<"API connection timeout - server may be down">>
    [] err # RaceTimeoutError /\ err.status = 401 -> <<"API authentication required">>
    [] err # RaceTimeoutError /\ err.status >= 500 -> <<"API server error">>
    [] err = NetworkError -> <<"Network connection failed">>
    [] OTHER -> <<"Unable to connect to API">>

C19_Disconnected(message) ==
  [checking |-> FALSE, connected |-> FALSE, version |-> Null,
   compatible |-> FALSE, error |-> message]

C19_Messages ==
  {<<"API connection timeout - server may be down">>,
   <<"API authentication required">>, <<"API server error">>,
   <<"Network connection failed">>, <<"Unable to connect to API">>}

C19_ProbeErrorClassified ==
  /\ [][\A r \in requests, err \in RequestErrors :
          ~raceSettled /\ ProbeFails(r, err)
            => apiStatus' = C19_Disconnected(C19_Classified(err))]_vars
  /\ [][~raceSettled /\ TimerFires
          => apiStatus' = C19_Disconnected(C19_Classified(RaceTimeoutError))]_vars
  /\ [](hasProbe /\ ~apiStatus.checking /\ apiStatus.error # Null
          => ~apiStatus.connected /\ apiStatus.error \in C19_Messages)

C19_Witness ==
  /\ probe = "settled"
  /\ lastResponse.status = 500
  /\ apiStatus = C19_Disconnected(<<"API server error">>)

\* C18 as stated: the step in which the validation of the stored token
\* succeeds at startup makes the gate AUTHENTICATED and leaves the identity
\* that /user/info returned in client state.
C18_StartupValidated == lastValidation'.origin = "existing" /\ lastValidation'.ok

C18_IdentityHeldWhenAuthenticated ==
  [][C18_StartupValidated
       => /\ isAuthenticated'
          /\ dashboard'.userInfo = <<UserInfoFor(Bearer(lastValidation'.token))>>]_vars

\* C18 amended: when validation of a stored token succeeds at startup the
\* gate becomes AUTHENTICATED and renders the pages, but keeps nothing of the
\* returned identity; an identity is held in client state only after the
\* Dashboard's own getUserInfo call was fulfilled and all four of its calls
\* have settled, and it is the data of that call.
C18_IdentityOnlyFromDashboard ==
  /\ [][C18_StartupValidated
          => /\ isAuthenticated'
             /\ View' = "children"
             /\ dashboard' = dashboard
             /\ dashboard'.userInfo = <<>>]_vars
  /\ [](dashboard.userInfo # <<>>
          => /\ dashboardSettled(dashboard)
             /\ dashboard.results["getUserInfo"].status = "fulfilled"
             /\ dashboard.userInfo = dashboard.results["getUserInfo"].value)

C18_Witness ==
  /\ lastValidation.origin = "existing"
  /\ lastValidation.ok
  /\ isAuthenticated
  /\ View = "children"
  /\ dashboard.userInfo = <<>>

\* C16: no error is swallowed. A step that handles a failed answer to a
\* request of the Dataset Management page leaves an error message in that
\* page's state; a submit of its create form whose Extras or Resources text
\* does not parse leaves an error message; once the four Dashboard calls
\* have settled with a rejection among them the Dashboard holds an error
\* message; and in the gate a failed probe leaves apiStatus.error set and a
\* failed validation leaves error set.
C16_PageRequestFailed ==
  /\ lastResponse'.url \in {UrlOrganization, UrlSearch, UrlDataset}
  /\ lastResponse'.status # 200

C16_ParseFails(text) == Trim(text) # <<>> /\ JSONparse(text).throws

C16_InvalidInputSubmitted ==
  /\ handleCreate
  /\ \/ C16_ParseFails(datasetManagement.extrasJson)
     \/ C16_ParseFails(datasetManagement.resourcesJson)

C16_DashboardCallRejected ==
  /\ dashboardSettled(dashboard)
  /\ \E call \in DashboardCalls : dashboard.results[call].status = "rejected"

C16_ErrorsNeverSwallowed ==
  /\ [][C16_PageRequestFailed => datasetManagement'.error # Null]_vars
  /\ [][C16_InvalidInputSubmitted => datasetManagement'.error # Null]_vars
  /\ [](C16_DashboardCallRejected => dashboard.error # Null)
  /\ [](hasProbe /\ ~apiStatus.checking /\ ~apiStatus.connected
          => apiStatus.error # Null)
  /\ [](lastValidation.origin # "none" /\ ~lastValidation.ok => error # Null)

\* C20: every poll tick and every delivered storage event sets AuthStatus'
\* isAuthenticated to "a token is stored"; once equal it stays equal in
\* every step that leaves the stored token and the component in place; and
\* whenever they differ, they become equal again.
C20_Consistent ==
  /\ authStatus.mounted
  /\ authStatus.isAuthenticated = (localStorage # Null)

C20_Stale ==
  /\ authStatus.mounted
  /\ authStatus.isAuthenticated # (localStorage # Null)

C20_EventuallyConsistent ==
  /\ [][PollTick \/ handleStorageChange
          => authStatus'.isAuthenticated = (localStorage' # Null)]_vars
  /\ [][C20_Consistent /\ localStorage' = localStorage /\ authStatus'.mounted
          => authStatus'.isAuthenticated = (localStorage' # Null)]_vars
  /\ (C20_Stale ~> C20_Consistent)

C20_Witness ==
  /\ C20_Consistent
  /\ localStorage = LongToken
  /\ authStatus.tokenPreview =
       <<"e", "y", "J", "h", "b", "G", ".", ".", ".", "O", "i", "J", "I", "U", "z">>
  /\ storageEvents > 0

\* C21: after every run of the entrypoint, the first or a repeated one, the
\* base URL that the served bundle uses equals NDP_EP_API, or
\* http://localhost:8003 when NDP_EP_API is unset.
C21_EmbeddedUrlIsNdpEpApi ==
  container.built /\ container.runs >= 1
    => BASE_URL(container.js) = API_URL(container.env)

\* C22: on a page load with no stored token the startup probe is sent, with
\* no Authorization header; the request interceptor neither rejects it nor
\* asks for a page reload.
C22_ProbeSentWithoutToken ==
  [][checkApiVersion /\ localStorage = Null
       => /\ probe' = "pending"
          /\ ~reloadPending'
          /\ \E r \in requests' \ requests :
               r.purpose = "probe" /\ r.auth = NoHeader]_vars

\* C25: the API compatibility descriptor of the gate is consistent in every
\* reachable state: compatible implies connected; connected implies no error
\* and a version; once the check is over, not connected implies no version,
\* not compatible and an error; when connected, compatible holds exactly
\* when the version is known and compares >= the minimum version.
C25_ApiStatusConsistent ==
  /\ apiStatus.compatible => apiStatus.connected
  /\ apiStatus.connected =>
       /\ apiStatus.error = Null
       /\ apiStatus.version # Null
       /\ apiStatus.compatible <=>
            /\ apiStatus.version # Unknown
            /\ compareVersions(apiStatus.version, MINIMUM_API_VERSION) >= 0
  /\ ~apiStatus.checking /\ ~apiStatus.connected =>
       /\ apiStatus.version = Null
       /\ ~apiStatus.compatible
       /\ apiStatus.error # Null

\* a connected API that reports a version below the minimum
C25_Witness ==
  /\ ~apiStatus.checking
  /\ apiStatus.connected
  /\ apiStatus.version = <<"0", ".", "0", ".", "9">>
  /\ ~apiStatus.compatible

\* C26: every page load of the gate leaves the loading screen: from a state
\* that shows it, a state is reached in which the API check is over and
\* loading is false, and the gate then shows the token form (not
\* authenticated) or the protected content (authenticated).
C26_LoadingScreen == View = "loading"

C26_GateLeavesLoading ==
  C26_LoadingScreen
    ~> /\ ~apiStatus.checking
       /\ ~loading
       /\ \/ View = "form" /\ ~isAuthenticated
          \/ View = "children" /\ isAuthenticated

\* a load with a stored token that the server confirmed
C26_Witness ==
  /\ lastValidation.origin = "existing"
  /\ lastValidation.ok
  /\ View = "children"
  /\ ~apiStatus.checking
  /\ ~loading

\* C27: on the Organizations page the answer to an earlier list request
\* never replaces the list displayed for a later request (a newer server
\* selection): the list displayed always comes from a request issued after
\* the one whose list it replaces.
C27_ListApplied ==
  /\ organizationsPage.mounted
  /\ organizationsPage'.shown # organizationsPage.shown

C27_StaleListNeverShown ==
  [][C27_ListApplied => organizationsPage'.shown > organizationsPage.shown]_vars

\* C28: on the Dataset Management page the loading flag is true whenever a
\* create request or a list fetch is in flight, the list refresh started
\* after a successful create included.
C28_LoadingWhileInFlight ==
  datasetManagement.mounted
    /\ (datasetManagement.pending.create > 0
          \/ datasetManagement.pending.search > 0)
    => datasetManagement.loading

\* C29: on the Dataset Management page the error message and the success
\* message are never both set, whatever the sequence of create, delete and
\* refresh operations and the order of their responses.
C29_ErrorAndSuccessExclusive ==
  ~(datasetManagement.error # Null /\ datasetManagement.success # Null)

\* C23: the Dataset Management filter accepts a dataset record only if the
\* filters of URL Resources, S3 Resources, Kafka Topics and Services all
\* reject it: no dataset is listed both on Dataset Management and on one of
\* the four other pages.
C23_GeneralOnlyIfOthersReject ==
  classified.done /\ classified.general
    => /\ ~classified.url
       /\ ~classified.s3
       /\ ~classified.kafka
       /\ ~classified.service

\* C24: on the URL Resources page a submission of the create or update form
\* while Extras, Mapping or Processing holds invalid JSON sends no request,
\* stops the handler (loading is false again) and shows an 'Invalid ...
\* format' error; a submission with valid JSON in the three fields sends
\* its request, whatever error an earlier submission left.
C24_InvalidJson ==
  \/ urlParseJsonSafely(urlResources.extrasJson, EmptyObject, "Extras").error # <<>>
  \/ urlParseJsonSafely(urlResources.mappingJson, EmptyObject, "Mapping").error # <<>>
  \/ urlParseJsonSafely(urlResources.processingJson, EmptyObject, "Processing").error # <<>>

C24_Submit == urlHandleCreate \/ urlHandleUpdate

C24_RequestSent ==
  \/ urlResources'.pending.create > urlResources.pending.create
  \/ urlResources'.pending.update > urlResources.pending.update

C24_InvalidJsonSendsNothing ==
  [][/\ C24_Submit /\ C24_InvalidJson
          => /\ ~C24_RequestSent
             /\ ~urlResources'.loading
             /\ Includes(urlResources'.error, "Invalid")
             /\ Includes(urlResources'.error, "format")
     /\ C24_Submit /\ ~C24_InvalidJson /\ Truthy(localStorage)
          => C24_RequestSent]_vars

\* C30: a DELETE request is sent only by a step of a delete handler whose
\* confirmation dialog was accepted, for the item of that dialog; a step in
\* which the dialog is declined sends nothing and leaves the list, the error
\* message and the success message of the page unchanged.
C30_Declined ==
  \/ handleDeleteDataset(FALSE)
  \/ \E orgName \in {"ndp", "lab"} : handleDelete(orgName, FALSE)
  \/ handleDeleteResource(FALSE)
  \/ handleDeleteService(FALSE)
  \/ handleDeleteTopic(FALSE)
  \/ s3HandleDeleteResource(FALSE)

C30_PageShows ==
  <<datasetManagement.datasets, datasetManagement.error,
    datasetManagement.success, datasetManagement.pending,
    organizationsPage.organizations, organizationsPage.error,
    organizationsPage.success, organizationsPage.deleting,
    organizationsPage.listRequests,
    urlResources.urlResources, urlResources.error, urlResources.success,
    urlResources.pending,
    services.services, services.error, services.success, services.pending,
    kafkaTopics.kafkaTopics, kafkaTopics.error, kafkaTopics.success,
    kafkaTopics.pending,
    s3Resources.s3Resources, s3Resources.error, s3Resources.success,
    s3Resources.pending, reloadPending, localStorage>>

C30_DeleteOnlyWhenConfirmed ==
  [][/\ datasetManagement'.pending.delete > datasetManagement.pending.delete
          => handleDeleteDataset(TRUE)
     /\ organizationsPage'.deleting # organizationsPage.deleting
        /\ organizationsPage'.deleting # <<>>
          => handleDelete(organizationsPage'.deleting[1], TRUE)
     /\ urlResources'.pending.delete > urlResources.pending.delete
          => handleDeleteResource(TRUE)
     /\ services'.pending.delete > services.pending.delete
          => handleDeleteService(TRUE)
     /\ kafkaTopics'.pending.delete > kafkaTopics.pending.delete
          => handleDeleteTopic(TRUE)
     /\ s3Resources'.pending.delete > s3Resources.pending.delete
          => s3HandleDeleteResource(TRUE)
     /\ C30_Declined => UNCHANGED C30_PageShows]_vars

\* a DELETE of a service is in flight after an accepted dialog, and a later
\* dialog on the same page was declined
C30_Witness ==
  /\ services.pending.delete > 0
  /\ services.dialog = "declined"
  /\ services.services # <<>>
====
